---------------------------- MODULE Spec2Model ----------------------------
(***************************************************************************)
(* A model of src/src/JSONSchemaInput.ts: the Ref path algebra, the        *)
(* reference resolver (Ref.lookupRef), the path -> type memo table and     *)
(* the recursive schema -> type conversion of addTypesInSchema.            *)
(*                                                                         *)
(* Strings are sequences of one-character strings, so that String.split,   *)
(* Array.join and parseInt are modelled by what they do to characters.     *)
(* JSON values are tagged records; a schema fragment held by the engine    *)
(* is a pointer into the root document (JavaScript object identity).       *)
(* Type attributes (names, descriptions) are not modelled: they are passed *)
(* through to the builder and never influence control flow or node shape.  *)
(***************************************************************************)
EXTENDS Naturals, Sequences, FiniteSets, TLC

VARIABLES
    \* ---- addTypesInSchema run ----
    run,          \* index of the (document, references) pair being converted
    documents,    \* the JSON documents in memory: a pointer's d indexes this table
    pending,      \* references.forEach: entries not yet visited
    stack,        \* call stack of toType / convertToType / fromTypeName frames
    ret,          \* value returned by the call that just finished
    typeForPath,  \* the memo table: Ref.immutable -> TypeRef
    types,        \* the type builder's arena: handle i is types[i]
    topLevels,    \* the builder's top-level registrations <<name, handle>>
    status,       \* "start" | "running" | "done" | "failed" | "overflow"
    failure,      \* the panic that ended the run: its message and the path it names
    toTypeLog,    \* history: path, handle and hit or miss of every toType return
    \* ---- Ref algebra harness ----
    r,            \* a Ref built through the public operations
    origin,       \* how r was started: by Ref.root or by Ref.parse of a string
    rt,           \* result of Ref.parse(r.address, r.toString())
    \* ---- lookupRef harness ----
    lk,           \* inputs and results of two lookupRef calls on one target
    \* ---- memo table harness ----
    setLog,       \* history: every setTypeForPath call, and whether it was accepted
    \* ---- definitionRefsInSchema harness ----
    dr,           \* the arguments of a definitionRefsInSchema call and its outcome
    \* ---- JSONSchemaStore ----
    schemas,      \* the store's _schemas map: address -> schema
    getLog        \* history: every get call, what it fetched and what it returned

engineVars ==
    <<run, documents, pending, stack, ret, typeForPath, types, topLevels, status, failure,
      toTypeLog>>
refVars == <<r, origin, rt>>
lookupVars == <<lk>>
memoVars == <<setLog>>
defsVars == <<dr>>
storeVars == <<schemas, getLog>>
vars == <<run, documents, pending, stack, ret, typeForPath, types, topLevels, status, failure, toTypeLog,
          r, origin, rt, lk, setLog, dr, schemas, getLog>>

(***************************************************************************)
(* Bounds of the model.                                                    *)
(***************************************************************************)
\* longest element sequence the Ref harness builds
MaxPathLen == 3
\* depth of the engine's call stack at which the run is cut off
MaxStack == 16
\* handles the memo harness binds
MaxHandle == 2

(***************************************************************************)
(* Strings.                                                                *)
(***************************************************************************)
S_empty == << >>
S_hash == <<"#">>
S_slash == <<"/">>
S_a == <<"a">>
S_b == <<"b">>
S_x == <<"x">>
S_0 == <<"0">>
S_1 == <<"1">>
S_a_slash_b == <<"a", "/", "b">>
S_definitions == <<"d","e","f","i","n","i","t","i","o","n","s">>
S_properties == <<"p","r","o","p","e","r","t","i","e","s">>
S_additionalProperties ==
    <<"a","d","d","i","t","i","o","n","a","l","P","r","o","p","e","r","t","i","e","s">>
S_items == <<"i","t","e","m","s">>
S_ref == <<"$","r","e","f">>
S_enum == <<"e","n","u","m">>
S_type == <<"t","y","p","e">>
S_format == <<"f","o","r","m","a","t">>
S_required == <<"r","e","q","u","i","r","e","d">>
S_allOf == <<"a","l","l","O","f">>
S_oneOf == <<"o","n","e","O","f">>
S_anyOf == <<"a","n","y","O","f">>
S_object == <<"o","b","j","e","c","t">>
S_array == <<"a","r","r","a","y">>
S_boolean == <<"b","o","o","l","e","a","n">>
S_string == <<"s","t","r","i","n","g">>
S_null == <<"n","u","l","l">>
S_integer == <<"i","n","t","e","g","e","r">>
S_number == <<"n","u","m","b","e","r">>
S_date == <<"d","a","t","e">>
S_time == <<"t","i","m","e">>
S_date_time == <<"d","a","t","e","-","t","i","m","e">>
S_Node == <<"N","o","d","e">>
S_next == <<"n","e","x","t">>
S_objectObject == <<"[","o","b","j","e","c","t"," ","O","b","j","e","c","t","]">>

DigitChars == <<"0","1","2","3","4","5","6","7","8","9">>

IsDigit(c) == \E i \in 1..10 : DigitChars[i] = c

DigitValue(c) == (CHOOSE i \in 1..10 : DigitChars[i] = c) - 1

\* Number.prototype.toString for a natural number
RECURSIVE NatToString(_)
NatToString(n) ==
    IF n < 10 THEN <<DigitChars[n + 1]>>
    ELSE NatToString(n \div 10) \o <<DigitChars[(n % 10) + 1]>>

\* String.prototype.split(sep) for a one-character separator: the parts
\* between the separators, empty parts kept, so "" splits into [""]
RECURSIVE SplitFrom(_, _, _)
SplitFrom(s, sep, cur) ==
    IF s = << >> THEN <<cur>>
    ELSE IF Head(s) = sep THEN <<cur>> \o SplitFrom(Tail(s), sep, << >>)
    ELSE SplitFrom(Tail(s), sep, Append(cur, Head(s)))

Split(s, sep) == SplitFrom(s, sep, << >>)

\* Array.prototype.join(sep)
RECURSIVE Join(_, _)
Join(parts, sep) ==
    IF parts = << >> THEN << >>
    ELSE IF Len(parts) = 1 THEN parts[1]
    ELSE parts[1] \o sep \o Join(Tail(parts), sep)

(***************************************************************************)
(* PathElement and Ref.                                                    *)
(***************************************************************************)
\* A PathElement.  Only the fields of its kind carry information; the
\* others hold a fixed filler.  caseKind is "" for every element an
\* ordinary operation makes; see PushCase.
PE(kind, name, key, index, caseKind) ==
    [kind |-> kind, name |-> name, key |-> key, index |-> index, caseKind |-> caseKind]

RootElement == PE("Root", << >>, << >>, 0, "")
DefinitionElement(name) == PE("Definition", name, << >>, 0, "")
TypeElement(index) == PE("Type", << >>, << >>, index, "")
ObjectElement == PE("Object", << >>, << >>, 0, "")
KeyOrIndexElement(key) == PE("KeyOrIndex", << >>, key, 0, "")

MkRef(address, path) == [address |-> address, path |-> path]

\* faulty variant: the root reference starts with no element at all
RefRoot_Empty(source) == MkRef(source, << >>)

RefRoot(source) == MkRef(source, <<RootElement>>)

RECURSIVE ParseParts(_, _)
ParseParts(parts, i) ==
    IF i > Len(parts) THEN << >>
    ELSE IF parts[i] = S_hash
         THEN <<RootElement>> \o ParseParts(parts, i + 1)
    ELSE IF parts[i] = S_definitions /\ i + 1 <= Len(parts)
         THEN <<DefinitionElement(parts[i + 1])>> \o ParseParts(parts, i + 2)
    ELSE <<KeyOrIndexElement(parts[i])>> \o ParseParts(parts, i + 1)

\* faulty variant: every reference string is taken to be absolute
RefParseString_Absolute(baseAddress, ref) ==
    MkRef(baseAddress, <<RootElement>> \o ParseParts(Split(ref, "/"), 1))

\* Ref.parse on a string
RefParseString(baseAddress, ref) == MkRef(baseAddress, ParseParts(Split(ref, "/"), 1))

PushElement(ref, pe) == MkRef(ref.address, Append(ref.path, pe))

Push(ref, key) == PushElement(ref, KeyOrIndexElement(key))

PushDefinition(ref, name) == PushElement(ref, DefinitionElement(name))

PushObject(ref) == PushElement(ref, ObjectElement)

\* faulty variant: every name of a type list is converted under path/object
PushType_Object(ref, index) == PushElement(ref, ObjectElement)

PushType(ref, index) == PushElement(ref, TypeElement(index))

\* path.push({ kind, index } as any): push() wraps whatever it is given as
\* the key of a KeyOrIndex element, so the element made for a combinator
\* branch is a KeyOrIndex whose key is the object {kind, index}
PushCase(ref, caseKind, index) ==
    PushElement(ref, PE("KeyOrIndex", << >>, << >>, index, caseKind))

ElementToString(e) ==
    IF e.kind = "Root" THEN S_hash
    ELSE IF e.kind = "Definition" THEN S_definitions \o S_slash \o e.name
    ELSE IF e.kind = "Type" THEN S_type \o S_slash \o NatToString(e.index)
    ELSE IF e.kind = "Object" THEN S_object
    ELSE IF e.caseKind # "" THEN S_objectObject
    ELSE e.key

RefToString(ref) ==
    Join([i \in 1..Len(ref.path) |-> ElementToString(ref.path[i])], S_slash)

\* get immutable(): the element sequence, each element made a value
RefImmutable(ref) == ref.path

\* get definitionName()
RefDefinitionName(ref) ==
    IF ref.path # << >> /\ ref.path[Len(ref.path)].kind = "Definition"
    THEN [defined |-> TRUE, name |-> ref.path[Len(ref.path)].name]
    ELSE [defined |-> FALSE, name |-> << >>]

(***************************************************************************)
(* JSON values.                                                            *)
(***************************************************************************)
JUndefined == [t |-> "undefined"]
JNull == [t |-> "null"]
JBool(b) == [t |-> "boolean", b |-> b]
JNum(n) == [t |-> "number", n |-> n]
JStr(s) == [t |-> "string", s |-> s]
JArr(el) == [t |-> "array", el |-> el]
\* an object: its own properties, in order, as <<key, value>> pairs
JObj(kv) == [t |-> "object", kv |-> kv]

KV(k, v) == <<k, v>>

HasKey(v, key) == v.t = "object" /\ \E i \in 1..Len(v.kv) : v.kv[i][1] = key

\* v[key] for an object v: undefined when v has no such property
ObjGet(v, key) ==
    IF HasKey(v, key)
    THEN v.kv[CHOOSE i \in 1..Len(v.kv) : v.kv[i][1] = key][2]
    ELSE JUndefined

\* v[n] for an array v
ArrGet(v, n) == IF v.t = "array" /\ n < Len(v.el) THEN v.el[n + 1] ELSE JUndefined

\* Object.keys(v)
ObjKeys(v) == [i \in 1..Len(v.kv) |-> v.kv[i][1]]

\* Support.isStringMap (the test behind checkStringMap): an object that is
\* neither an array nor null
IsStringMap(v) == v.t = "object"

\* Array.isArray
IsArray(v) == v.t = "array"

\* JavaScript truthiness of a JSON value
Truthy(v) ==
    CASE v.t = "undefined" -> FALSE
      [] v.t = "null" -> FALSE
      [] v.t = "boolean" -> v.b
      [] v.t = "number" -> v.n # 0
      [] v.t = "string" -> v.s # << >>
      [] OTHER -> TRUE

\* parseInt(s, 10): leading blanks, an optional sign, then the longest run
\* of digits; NaN when there is no digit
RECURSIVE SkipBlanks(_)
SkipBlanks(s) == IF s # << >> /\ Head(s) = " " THEN SkipBlanks(Tail(s)) ELSE s

RECURSIVE DigitsValue(_, _)
DigitsValue(s, acc) ==
    IF s # << >> /\ IsDigit(Head(s))
    THEN DigitsValue(Tail(s), acc * 10 + DigitValue(Head(s)))
    ELSE acc

ParseInt(str) ==
    LET s == SkipBlanks(str)
        neg == s # << >> /\ Head(s) = "-"
        body == IF s # << >> /\ Head(s) \in {"-", "+"} THEN Tail(s) ELSE s
    IN  IF body = << >> \/ ~IsDigit(Head(body))
        THEN [nan |-> TRUE, neg |-> FALSE, n |-> 0]
        ELSE [nan |-> FALSE, neg |-> neg, n |-> DigitsValue(body, 0)]

(***************************************************************************)
(* Schema documents and the top-level references they are converted with.  *)
(***************************************************************************)
RefString(parts) == Join(parts, S_slash)

DefRefString(name) == RefString(<<S_hash, S_definitions, name>>)

Schema_TypeName(name) == JObj(<<KV(S_type, JStr(name))>>)

Schema_Ref(str) == JObj(<<KV(S_ref, JStr(str))>>)

DocWithDefinitions(defs) == JObj(<<KV(S_definitions, JObj(defs))>>)

\* definitions.Node has a property next that refers back to Node
Doc_Node ==
    DocWithDefinitions(<<
        KV(S_Node, JObj(<<
            KV(S_type, JStr(S_object)),
            KV(S_properties, JObj(<<KV(S_next, Schema_Ref(DefRefString(S_Node)))>>))>>))>>)

\* a fragment whose only content is a $ref to itself
Doc_SelfRef == DocWithDefinitions(<<KV(S_a, Schema_Ref(DefRefString(S_a)))>>)

\* two fragments whose only content is a $ref to the other
Doc_MutualRef ==
    DocWithDefinitions(<<
        KV(S_a, Schema_Ref(DefRefString(S_b))),
        KV(S_b, Schema_Ref(DefRefString(S_a)))>>)

\* a is a $ref to b, and a property of b refers to a
Doc_RefThrough ==
    DocWithDefinitions(<<
        KV(S_a, Schema_Ref(DefRefString(S_b))),
        KV(S_b, JObj(<<
            KV(S_properties, JObj(<<KV(S_x, Schema_Ref(DefRefString(S_a)))>>))>>))>>)

Doc_Enums ==
    DocWithDefinitions(<<
        KV(S_a, JObj(<<KV(S_enum, JArr(<<JStr(S_a), JStr(S_b), JNull, JStr(S_a)>>)),
                       KV(S_type, JStr(S_integer))>>)),
        KV(S_b, JObj(<<KV(S_enum, JArr(<<JStr(S_a), JStr(S_b)>>))>>)),
        KV(S_x, JObj(<<KV(S_enum, JStr(S_a)), KV(S_type, JStr(S_string))>>))>>)

\* a carries every keyword next to its $ref, b every keyword next to its enum
Doc_Precedence ==
    DocWithDefinitions(<<
        KV(S_a, JObj(<<
            KV(S_ref, JStr(DefRefString(S_b))),
            KV(S_enum, JArr(<<JStr(S_x)>>)),
            KV(S_type, JStr(S_integer)),
            KV(S_properties, JObj(<<KV(S_x, Schema_TypeName(S_null))>>)),
            KV(S_allOf, JArr(<<Schema_TypeName(S_string)>>))>>)),
        KV(S_b, JObj(<<
            KV(S_enum, JArr(<<JStr(S_a), JStr(S_b)>>)),
            KV(S_type, JStr(S_boolean)),
            KV(S_oneOf, JArr(<<Schema_TypeName(S_integer)>>))>>))>>)

Doc_BadEnum == JObj(<<KV(S_enum, JArr(<<JStr(S_a), JNum(3)>>))>>)

Doc_TypeList == JObj(<<KV(S_type, JArr(<<JStr(S_string), JStr(S_integer), JStr(S_object)>>))>>)

\* type lists that repeat a name
Doc_RepeatedTypes ==
    DocWithDefinitions(<<
        KV(S_a, JObj(<<KV(S_type, JArr(<<JStr(S_string), JStr(S_string)>>))>>)),
        KV(S_b, JObj(<<KV(S_type, JArr(<<JStr(S_null), JStr(S_integer), JStr(S_null)>>))>>)),
        KV(S_x, JObj(<<KV(S_type, JArr(<<JStr(S_object), JStr(S_array)>>)),
                       KV(S_items, Schema_Ref(DefRefString(S_a)))>>))>>)

Doc_EmptyTypeList == JObj(<<KV(S_type, JArr(<< >>))>>)

Doc_BadTypeList == JObj(<<KV(S_type, JArr(<<JStr(S_string), JNum(3)>>))>>)

Doc_BadType == JObj(<<KV(S_type, JNum(3))>>)

Doc_BadTypeName == JObj(<<KV(S_type, JStr(S_a))>>)

\* the first definition is well-formed, the second names no type
Doc_LateFailure ==
    DocWithDefinitions(<<KV(S_a, Schema_TypeName(S_string)), KV(S_b, Schema_TypeName(S_a))>>)

Doc_Objects ==
    DocWithDefinitions(<<
        KV(S_a, JObj(<<
            KV(S_type, JStr(S_object)),
            KV(S_properties, JObj(<<KV(S_a, Schema_TypeName(S_string)),
                                    KV(S_b, Schema_TypeName(S_number))>>)),
            KV(S_required, JArr(<<JStr(S_a), JStr(S_x)>>))>>)),
        KV(S_b, JObj(<<
            KV(S_type, JStr(S_object)),
            KV(S_additionalProperties, Schema_TypeName(S_integer))>>)),
        KV(S_x, Schema_TypeName(S_object)),
        KV(S_0, JObj(<<
            KV(S_properties, JObj(<<KV(S_a, Schema_TypeName(S_boolean))>>)),
            KV(S_additionalProperties, Schema_TypeName(S_null))>>)),
        KV(S_1, JObj(<<KV(S_additionalProperties, JBool(FALSE))>>)),
        KV(S_next, JObj(<<
            KV(S_properties, JObj(<<KV(S_a, Schema_TypeName(S_string))>>)),
            KV(S_additionalProperties, JBool(FALSE))>>)),
        KV(S_Node, JObj(<<KV(S_additionalProperties, JBool(TRUE))>>))>>)

Doc_BadRequired ==
    JObj(<<KV(S_type, JStr(S_object)), KV(S_required, JStr(S_a))>>)

Doc_Arrays ==
    DocWithDefinitions(<<
        KV(S_a, JObj(<<KV(S_type, JStr(S_array)), KV(S_items, Schema_TypeName(S_integer))>>)),
        KV(S_b, Schema_TypeName(S_array)),
        KV(S_x, JObj(<<KV(S_type, JStr(S_array)), KV(S_items, Schema_Ref(DefRefString(S_x)))>>))>>)

Doc_Strings ==
    DocWithDefinitions(<<
        KV(S_a, JObj(<<KV(S_type, JStr(S_string)), KV(S_format, JStr(S_date))>>)),
        KV(S_b, JObj(<<KV(S_type, JStr(S_string)), KV(S_format, JStr(S_time))>>)),
        KV(S_x, JObj(<<KV(S_type, JStr(S_string)), KV(S_format, JStr(S_date_time))>>)),
        KV(S_0, JObj(<<KV(S_type, JStr(S_string)), KV(S_format, JStr(S_a))>>))>>)

\* the root combines all three combinators; one allOf branch refers to the root
Doc_Combinators ==
    JObj(<<
        KV(S_allOf, JArr(<<Schema_TypeName(S_string), Schema_Ref(S_hash)>>)),
        KV(S_oneOf, JArr(<<Schema_TypeName(S_integer), Schema_TypeName(S_null)>>)),
        KV(S_anyOf, JArr(<<Schema_TypeName(S_boolean)>>))>>)

Doc_BadCases == JObj(<<KV(S_oneOf, JStr(S_a))>>)

\* a relative $ref: x is looked up in the fragment that holds the $ref
Doc_RelativeRef ==
    JObj(<<
        KV(S_properties, JObj(<<
            KV(S_a, JObj(<<KV(S_ref, JStr(S_x)), KV(S_x, Schema_TypeName(S_null))>>))>>)),
        KV(S_items, JArr(<<Schema_TypeName(S_boolean)>>))>>)

Doc_BadRef == JObj(<<KV(S_ref, JNum(3))>>)

Doc_MissingRef == JObj(<<KV(S_ref, JStr(DefRefString(S_a)))>>)

\* sub-schemas that are boolean literals
Doc_BooleanProperty ==
    JObj(<<KV(S_properties, JObj(<<KV(S_a, JBool(TRUE))>>))>>)

Doc_BooleanItems == JObj(<<KV(S_type, JStr(S_array)), KV(S_items, JBool(TRUE))>>)

Doc_BooleanCase == JObj(<<KV(S_allOf, JArr(<<JBool(TRUE)>>))>>)

\* the address the run is given, and another one carried by some references
RootAddress == "root"
OtherAddress == "other"

TopRoot(name) == <<name, RefRoot(RootAddress)>>

TopDefinition(name) == <<name, PushDefinition(RefRoot(RootAddress), name)>>

TopOther(name, ref) == <<name, MkRef(OtherAddress, ref.path)>>

Case(doc, refs) == [doc |-> doc, refs |-> refs]

\* each (document, top-level references) pair a run may be started with
Cases == <<
    Case(Doc_Node, <<TopDefinition(S_Node)>>),
    Case(Doc_SelfRef, <<TopDefinition(S_a)>>),
    Case(Doc_MutualRef, <<TopDefinition(S_a), TopDefinition(S_b)>>),
    Case(Doc_RefThrough, <<TopDefinition(S_a), TopDefinition(S_b)>>),
    Case(Doc_RefThrough, <<TopDefinition(S_b), TopDefinition(S_a)>>),
    Case(Doc_Enums, <<TopDefinition(S_a), TopDefinition(S_b), TopDefinition(S_x)>>),
    Case(Doc_BadEnum, <<TopRoot(S_a)>>),
    Case(Doc_TypeList, <<TopRoot(S_a)>>),
    Case(Doc_EmptyTypeList, <<TopRoot(S_a)>>),
    Case(Doc_BadTypeList, <<TopRoot(S_a)>>),
    Case(Doc_BadType, <<TopRoot(S_a)>>),
    Case(Doc_BadTypeName, <<TopRoot(S_a)>>),
    Case(Doc_Objects, <<TopDefinition(S_a), TopDefinition(S_b), TopDefinition(S_x),
                        TopDefinition(S_0), TopDefinition(S_1), TopDefinition(S_next),
                        TopDefinition(S_Node)>>),
    Case(Doc_BadRequired, <<TopRoot(S_a)>>),
    Case(Doc_Arrays, <<TopDefinition(S_a), TopDefinition(S_b), TopDefinition(S_x)>>),
    Case(Doc_Strings, <<TopDefinition(S_a), TopDefinition(S_b), TopDefinition(S_x),
                        TopDefinition(S_0)>>),
    Case(Doc_Combinators, <<TopRoot(S_a)>>),
    Case(Doc_BadCases, <<TopRoot(S_a)>>),
    Case(Doc_RelativeRef, <<TopRoot(S_a),
                            <<S_b, RefParseString(RootAddress, RefString(<<S_hash, S_items, S_0>>))>>>>),
    Case(Doc_BadRef, <<TopRoot(S_a)>>),
    Case(Doc_MissingRef, <<TopRoot(S_a)>>),
    Case(Doc_BooleanProperty, <<TopRoot(S_a)>>),
    Case(Doc_BooleanItems, <<TopRoot(S_a)>>),
    Case(Doc_BooleanCase, <<TopRoot(S_a)>>),
    Case(Doc_Node, <<TopOther(S_a, PushDefinition(RefRoot(OtherAddress), S_Node)),
                     TopDefinition(S_b),
                     TopOther(S_Node, PushObject(PushDefinition(RefRoot(OtherAddress), S_Node)))>>),
    Case(JBool(TRUE), <<TopRoot(S_a)>>),
    Case(Doc_Objects, << >>),
    Case(Doc_Precedence, <<TopDefinition(S_a), TopDefinition(S_b)>>),
    Case(Doc_RepeatedTypes, <<TopDefinition(S_a), TopDefinition(S_b), TopDefinition(S_x)>>),
    Case(Doc_LateFailure, <<TopDefinition(S_a), TopDefinition(S_b)>>),
    Case(Doc_Node, <<TopDefinition(S_Node),
                     TopOther(S_a, PushDefinition(RefRoot(OtherAddress), S_Node)),
                     TopRoot(S_b)>>)
>>

NCases == Len(Cases)

(***************************************************************************)
(* Pointers into documents: a schema fragment is a JavaScript object, held *)
(* by reference.  A pointer is the document (an index of documents) and    *)
(* the property names and indices that lead from its root to the value.    *)
(***************************************************************************)
KeyStep(key) == [isIdx |-> FALSE, key |-> key, idx |-> 0]
IdxStep(n) == [isIdx |-> TRUE, key |-> << >>, idx |-> n]

Ptr(d, loc) == [d |-> d, loc |-> loc]

\* the pointer every undefined value is held as
UndefinedPtr == Ptr(0, << >>)

RootPtr(d) == Ptr(d, << >>)

RECURSIVE Walk(_, _)
Walk(v, loc) ==
    IF loc = << >> THEN v
    ELSE IF Head(loc).isIdx THEN Walk(ArrGet(v, Head(loc).idx), Tail(loc))
    ELSE Walk(ObjGet(v, Head(loc).key), Tail(loc))

\* the value a pointer holds
Deref(p) == IF p.d = 0 THEN JUndefined ELSE Walk(documents[p.d], p.loc)

Norm(p) == IF p.d # 0 /\ Deref(p).t = "undefined" THEN UndefinedPtr ELSE p

\* p[key]
PtrGet(p, key) == IF p.d = 0 THEN UndefinedPtr ELSE Norm(Ptr(p.d, Append(p.loc, KeyStep(key))))

\* p[n] for a number n as parseInt returns it
PtrIndex(p, n) ==
    IF p.d = 0 \/ n.nan \/ (n.neg /\ n.n # 0) THEN UndefinedPtr
    ELSE Norm(Ptr(p.d, Append(p.loc, IdxStep(n.n))))

(***************************************************************************)
(* Ref.lookupRef.                                                          *)
(***************************************************************************)
\* the key a KeyOrIndex element is looked up with: a key that is an object
\* is converted to a string by the property access
ElementKey(e) == IF e.caseKind # "" THEN S_objectObject ELSE e.key

LookupOk(frag, path) == [ok |-> TRUE, frag |-> frag, path |-> path, err |-> ""]

LookupPanic(err) == [ok |-> FALSE, frag |-> UndefinedPtr, path |-> << >>, err |-> err]

\* faulty variant: at a Root element the walk restarts from the root
\* document but the path goes on from the local path
LookupAtRoot_KeepPath(root, localPath, first) ==
    [local |-> root, localPath |-> Append(localPath, first)]

\* first.kind === Root: start over from the root document, with the path
\* walked so far replaced by [first]
LookupAtRoot(root, localPath, first) == [local |-> root, localPath |-> <<first>>]

\* the inner function lookup(local, localPath, path); root is the root
\* document of the enclosing lookupRef call
RECURSIVE Lookup(_, _, _, _)
Lookup(root, local, localPath, path) ==
    IF path = << >>
    THEN IF IsStringMap(Deref(local)) THEN LookupOk(local, localPath)
         ELSE LookupPanic("Value must be an object")
    ELSE
      LET first == Head(path)
          rest == Tail(path)
          pushed == Append(localPath, first)
          atRoot == LookupAtRoot(root, localPath, first)
      IN  CASE first.kind = "Root" -> Lookup(root, atRoot.local, atRoot.localPath, rest)
            [] first.kind = "Definition" ->
                 \* lookupDefinition(checkStringMap(local), first.name)
                 IF ~IsStringMap(Deref(local))
                    \/ ~IsStringMap(Deref(PtrGet(local, S_definitions)))
                    \/ ~IsStringMap(Deref(PtrGet(PtrGet(local, S_definitions), first.name)))
                 THEN LookupPanic("Value must be an object")
                 ELSE Lookup(root, PtrGet(PtrGet(local, S_definitions), first.name),
                             pushed, rest)
            [] first.kind = "KeyOrIndex" ->
                 IF IsArray(Deref(local))
                 THEN Lookup(root, PtrIndex(local, ParseInt(ElementKey(first))), pushed, rest)
                 ELSE IF ~IsStringMap(Deref(local))
                 THEN LookupPanic("Value must be an object")
                 ELSE Lookup(root, PtrGet(local, ElementKey(first)), pushed, rest)
            [] first.kind = "Type" -> LookupPanic("Cannot look up path that indexes type")
            [] OTHER -> LookupPanic("Cannot look up path that indexes object")

\* faulty variant: the Ref returned carries the address of the target
LookupRef_TargetAddress(target, root, localSchema, localRef) ==
    LET res == Lookup(root, localSchema, localRef.path, target.path)
    IN  [ok |-> res.ok, frag |-> res.frag, ref |-> MkRef(target.address, res.path),
         err |-> res.err]

\* faulty variant: the local path is walked and the target's path is taken as
\* the path walked so far
LookupRef_Swapped(target, root, localSchema, localRef) ==
    LET res == Lookup(root, localSchema, target.path, localRef.path)
    IN  [ok |-> res.ok, frag |-> res.frag, ref |-> MkRef(localRef.address, res.path),
         err |-> res.err]

\* target.lookupRef(root, localSchema, localRef): the fragment found and the
\* Ref of the path walked, which carries localRef's address
LookupRef(target, root, localSchema, localRef) ==
    LET res == Lookup(root, localSchema, localRef.path, target.path)
    IN  [ok |-> res.ok, frag |-> res.frag, ref |-> MkRef(localRef.address, res.path),
         err |-> res.err]

(***************************************************************************)
(* The memo table of addTypesInSchema.                                     *)
(***************************************************************************)
EmptyMemo == [k \in {} |-> 0]

MemoHas(memo, path) == RefImmutable(path) \in DOMAIN memo

MemoGet(memo, path) == memo[RefImmutable(path)]

\* faulty variant: the table is left as it is
MemoSet_Drop(memo, path, t) == memo

MemoSet(memo, path, t) ==
    [k \in DOMAIN memo \cup {RefImmutable(path)} |->
        IF k = RefImmutable(path) THEN t ELSE memo[k]]

\* faulty variant: the assertion is missing and the new handle replaces
\* the old one
SetTypeForPath_NoAssert(memo, path, t) == [ok |-> TRUE, memo |-> MemoSet(memo, path, t)]

\* setTypeForPath(path, t): ok is FALSE when the assertion fails, and then
\* the table is as it was
SetTypeForPath(memo, path, t) ==
    IF MemoHas(memo, path) /\ MemoGet(memo, path) # t
    THEN [ok |-> FALSE, memo |-> memo]
    ELSE [ok |-> TRUE, memo |-> MemoSet(memo, path, t)]

(***************************************************************************)
(* The type graph builder (TypeGraphBuilder is not part of the source at   *)
(* hand; it is modelled from the contract the engine is written against).  *)
(* A handle is an index of the arena.  The getUnique... allocators always  *)
(* make a new node; the others reuse a structurally identical node.        *)
(***************************************************************************)
Node(kind, prim, item, cases, props, members, forward) ==
    [kind |-> kind, prim |-> prim, item |-> item, cases |-> cases, props |-> props,
     members |-> members, forward |-> forward, sets |-> 0]

Built(ts, h) == [types |-> ts, h |-> h]

Allocate(ts, node) == Built(Append(ts, node), Len(ts) + 1)

AllocateOrReuse(ts, node) ==
    IF \E h \in 1..Len(ts) : ts[h] = node
    THEN Built(ts, CHOOSE h \in 1..Len(ts) : ts[h] = node)
    ELSE Allocate(ts, node)

\* faulty variant: repeated elements are kept
OrderedSet_Keep(list) == list

\* OrderedSet(list): the elements in first-occurrence order, without repeats
RECURSIVE OrderedSet(_)
OrderedSet(list) ==
    IF list = << >> THEN << >>
    ELSE LET init == OrderedSet(SubSeq(list, 1, Len(list) - 1))
             last == list[Len(list)]
         IN  IF \E i \in 1..Len(init) : init[i] = last THEN init ELSE Append(init, last)

GetPrimitiveType(ts, kind) ==
    AllocateOrReuse(ts, Node("primitive", kind, 0, << >>, {}, << >>, FALSE))

GetStringType(ts) == AllocateOrReuse(ts, Node("string", "", 0, << >>, {}, << >>, FALSE))

GetEnumType(ts, cases) == AllocateOrReuse(ts, Node("enum", "", 0, cases, {}, << >>, FALSE))

GetArrayType(ts, items) == AllocateOrReuse(ts, Node("array", "", items, << >>, {}, << >>, FALSE))

GetMapType(ts, values) == AllocateOrReuse(ts, Node("map", "", values, << >>, {}, << >>, FALSE))

\* props: the set of <<name, handle, isOptional>>
GetUniqueClassType(ts, props) == Allocate(ts, Node("class", "", 0, << >>, props, << >>, FALSE))

GetUnionType(ts, members) ==
    AllocateOrReuse(ts, Node("union", "", 0, << >>, {}, members, FALSE))

\* getUniqueUnionType(attributes, undefined): a union with no members yet
GetUniqueUnionType(ts) == Allocate(ts, Node("union", "", 0, << >>, {}, << >>, TRUE))

\* getUniqueIntersectionType(attributes, undefined)
GetUniqueIntersectionType(ts) ==
    Allocate(ts, Node("intersection", "", 0, << >>, {}, << >>, TRUE))

\* sets counts the calls made on the node
SetSetOperationMembers(ts, h, members) ==
    [ts EXCEPT ![h] = [@ EXCEPT !.members = members, !.sets = @ + 1]]

AddTopLevel(tops, name, h) == Append(tops, <<name, h>>)

(***************************************************************************)
(* Values of the variables a specification does not use.                   *)
(***************************************************************************)
NoRet ==
    [defined |-> FALSE, h |-> 0, fn |-> "", schema |-> UndefinedPtr, path |-> MkRef("", << >>)]

NoFailure == [msg |-> "", at |-> << >>]

EngineIdle ==
    /\ run = 0
    /\ pending = << >>
    /\ stack = << >>
    /\ ret = NoRet
    /\ typeForPath = EmptyMemo
    /\ types = << >>
    /\ topLevels = << >>
    /\ status = "idle"
    /\ failure = NoFailure
    /\ toTypeLog = {}

NoRoundTrip == [done |-> FALSE, from |-> MkRef("", << >>), ref |-> MkRef("", << >>)]

RefIdle ==
    /\ r = MkRef("", << >>)
    /\ origin = [kind |-> "none", str |-> << >>]
    /\ rt = NoRoundTrip

NoLookupResult == [ok |-> FALSE, frag |-> UndefinedPtr, ref |-> MkRef("", << >>), err |-> ""]

NoLookup ==
    [done |-> FALSE, target |-> MkRef("", << >>), root |-> UndefinedPtr,
     localA |-> UndefinedPtr, refA |-> MkRef("", << >>), resA |-> NoLookupResult,
     localB |-> UndefinedPtr, refB |-> MkRef("", << >>), resB |-> NoLookupResult]

LookupIdle == lk = NoLookup

MemoIdle == setLog = {}

NoDefinitionRefs ==
    [done |-> FALSE, rootJson |-> JUndefined, rootAddress |-> "",
     result |-> [ok |-> FALSE, map |-> {}, err |-> ""]]

DefsIdle == dr = NoDefinitionRefs

StoreIdle == schemas = << >> /\ getLog = << >>

(***************************************************************************)
(* The Ref algebra: every Ref the public operations can build.             *)
(***************************************************************************)
Addresses == {RootAddress, OtherAddress}

\* keys and definition names the harness pushes
HarnessKeys == {S_a, S_0, S_hash, S_definitions, S_a_slash_b, S_empty}
HarnessNames == {S_a, S_definitions, S_a_slash_b, S_hash}

\* strings the harness parses
HarnessStrings ==
    {S_empty, S_hash, S_a, S_definitions, S_a_slash_b,
     RefString(<<S_hash, S_definitions, S_a>>),
     RefString(<<S_definitions, S_a>>),
     RefString(<<S_hash, S_a, S_0>>),
     RefString(<<S_a, S_hash>>),
     RefString(<<S_hash, S_definitions>>),
     RefString(<<S_hash, S_empty>>)}

RefInit ==
    /\ \/ \E a \in Addresses :
            /\ r = RefRoot(a)
            /\ origin = [kind |-> "root", str |-> << >>]
       \/ \E a \in Addresses, s \in HarnessStrings :
            /\ r = RefParseString(a, s)
            /\ origin = [kind |-> "parse", str |-> s]
    /\ rt = NoRoundTrip
    /\ EngineIdle /\ documents = << >> /\ LookupIdle /\ MemoIdle /\ DefsIdle /\ StoreIdle

RefStep(next) ==
    /\ Len(r.path) < MaxPathLen
    /\ r' = next
    /\ rt' = NoRoundTrip
    /\ UNCHANGED <<origin, engineVars, lookupVars, memoVars, defsVars, storeVars>>

DoPush == \E key \in HarnessKeys : RefStep(Push(r, key))

DoPushDefinition == \E name \in HarnessNames : RefStep(PushDefinition(r, name))

DoPushObject == RefStep(PushObject(r))

DoPushType == \E index \in 0..1 : RefStep(PushType(r, index))

\* Ref.parse(r.address, r.toString())
DoRoundTrip ==
    /\ ~rt.done
    /\ rt' = [done |-> TRUE, from |-> r, ref |-> RefParseString(r.address, RefToString(r))]
    /\ UNCHANGED <<r, origin, engineVars, lookupVars, memoVars, defsVars, storeVars>>

RefNext == DoPush \/ DoPushDefinition \/ DoPushObject \/ DoPushType \/ DoRoundTrip

RefSpec == RefInit /\ [][RefNext]_vars

(***************************************************************************)
(* Claims about the Ref algebra (checked under RefSpec).                   *)
(***************************************************************************)
FirstIsRoot(ref) == Len(ref.path) >= 1 /\ ref.path[1].kind = "Root"

\* C7 as stated: every Ref the public operations build (Ref.root, Ref.parse
\* of any string, and pushes on those) has Root as its first element.
C7_FirstElementAlwaysRoot == origin.kind # "none" => FirstIsRoot(r)

\* C7, amended: a Ref started by Ref.root has Root as its first element
\* whatever is pushed on it, and a Ref started by Ref.parse has Root as its
\* first element exactly when the first "/"-separated segment of the parsed
\* string is "#".
C7_FirstElementRootOrRelative ==
    /\ origin.kind = "root" => FirstIsRoot(r)
    /\ origin.kind = "parse" =>
          /\ Len(r.path) >= 1
          /\ FirstIsRoot(r) <=> (Split(origin.str, "/")[1] = S_hash)

\* C7 witness: a parsed absolute reference string with elements pushed on it
C7_Witness ==
    /\ origin.kind = "parse"
    /\ Split(origin.str, "/")[1] = S_hash
    /\ Len(r.path) = MaxPathLen
    /\ r.path[Len(r.path)].kind = "Object"
    /\ FirstIsRoot(r)

HasSlash(str) == \E i \in 1..Len(str) : str[i] = "/"

\* r was built from Ref.root by push(key) and pushDefinition(name) alone
BuiltByPushes(ref) ==
    /\ FirstIsRoot(ref)
    /\ \A i \in 2..Len(ref.path) : ref.path[i].kind \in {"Definition", "KeyOrIndex"}

\* no key or name of ref is split or re-read by Ref.parse
ParsesBack(ref) ==
    \A i \in 2..Len(ref.path) :
        LET e == ref.path[i]
        IN  /\ e.kind = "KeyOrIndex" =>
                /\ e.key # S_hash
                /\ ~HasSlash(e.key)
                /\ e.key = S_definitions => i = Len(ref.path)
            /\ e.kind = "Definition" => ~HasSlash(e.name)

\* C9 as stated: for every Ref built from Ref.root by push and
\* pushDefinition, parsing its string form gives back its element sequence,
\* a key "definitions" followed by another element included.
C9_RoundTripAlways ==
    (rt.done /\ origin.kind = "root" /\ BuiltByPushes(rt.from)) => rt.ref.path = rt.from.path

\* C9, amended: parsing the string form of a Ref built from Ref.root by push
\* and pushDefinition gives back its element sequence provided no key is
\* "#", no key or definition name contains "/", and no key "definitions" is
\* followed by another element.
C9_RoundTripWhenParsesBack ==
    (rt.done /\ origin.kind = "root" /\ BuiltByPushes(rt.from) /\ ParsesBack(rt.from))
        => rt.ref.path = rt.from.path

\* C9 witness: a round trip of a Ref that ends in the key "definitions"
\* after a definition element
C9_Witness ==
    /\ rt.done /\ origin.kind = "root"
    /\ Len(rt.from.path) = MaxPathLen
    /\ rt.from.path[Len(rt.from.path)] = KeyOrIndexElement(S_definitions)
    /\ rt.from.path[2].kind = "Definition"
    /\ rt.ref.path = rt.from.path

(***************************************************************************)
(* Ref.lookupRef applied to one target from two different local documents  *)
(* and local paths.                                                        *)
(***************************************************************************)
\* root documents of the harness: Doc_RefThrough, Doc_Objects and
\* Doc_RelativeRef in Cases
LookupRoots == {4, 13, 19}

LookupTargets ==
    {RefParseString(RootAddress, str) : str \in
        {S_hash, S_x, S_0, S_empty,
         RefString(<<S_hash, S_definitions, S_a>>),
         RefString(<<S_hash, S_definitions, S_b, S_properties, S_x>>),
         RefString(<<S_hash, S_properties, S_a, S_x>>),
         RefString(<<S_hash, S_items, S_0>>),
         RefString(<<S_hash, S_items, S_1>>),
         RefString(<<S_definitions, S_a>>),
         RefString(<<S_properties, S_a>>),
         RefString(<<S_x, S_hash, S_definitions, S_b>>),
         RefString(<<S_definitions, S_x, S_hash>>)}}
    \cup {PushType(RefRoot(RootAddress), 0), PushObject(RefRoot(OtherAddress))}

LookupLocals(d) ==
    {UndefinedPtr}
    \cup {Norm(Ptr(e, loc)) : e \in LookupRoots, loc \in
            {<< >>,
             <<KeyStep(S_definitions), KeyStep(S_a)>>,
             <<KeyStep(S_properties), KeyStep(S_a)>>,
             <<KeyStep(S_items)>>}}

LookupLocalRefs ==
    {RefRoot(RootAddress),
     PushObject(PushDefinition(RefRoot(OtherAddress), S_a)),
     Push(Push(RefRoot(RootAddress), S_properties), S_a)}

LookupInit ==
    /\ lk = NoLookup
    /\ documents = [d \in LookupRoots |-> Cases[d].doc]
    /\ EngineIdle /\ RefIdle /\ MemoIdle /\ DefsIdle /\ StoreIdle

DoLookup ==
    /\ ~lk.done
    /\ \E d \in LookupRoots, target \in LookupTargets :
       \E localA \in LookupLocals(d), localB \in LookupLocals(d) :
       \E refA \in LookupLocalRefs, refB \in LookupLocalRefs :
          lk' = [done |-> TRUE, target |-> target, root |-> RootPtr(d),
                 localA |-> localA, refA |-> refA,
                 resA |-> LookupRef(target, RootPtr(d), localA, refA),
                 localB |-> localB, refB |-> refB,
                 resB |-> LookupRef(target, RootPtr(d), localB, refB)]
    /\ UNCHANGED <<engineVars, refVars, memoVars, defsVars, storeVars>>

\* the harness may look another target up
DoLookupReset ==
    /\ lk.done
    /\ lk' = NoLookup
    /\ UNCHANGED <<engineVars, refVars, memoVars, defsVars, storeVars>>

LookupNext == DoLookup \/ DoLookupReset

LookupSpec == LookupInit /\ [][LookupNext]_vars

HasRootElement(path) == \E i \in 1..Len(path) : path[i].kind = "Root"

LastRootIndex(path) ==
    CHOOSE i \in 1..Len(path) :
        path[i].kind = "Root" /\ \A j \in (i + 1)..Len(path) : path[j].kind # "Root"

\* the elements of path after its last Root element
AfterLastRoot(path) == SubSeq(path, LastRootIndex(path) + 1, Len(path))

\* C10: lookupRef walks the target from the local document and local path and
\* restarts at a Root element from the root document with the path reset to
\* [Root]: a target that begins with Root gives the same outcome, fragment
\* and element sequence whatever the local document and local path are; a
\* target with a Root element returns [Root] followed by the elements after
\* its last Root, and a fragment of the root document; a target with no Root
\* element returns the local path followed by the target's elements.
C10_LookupRestartsAtRoot ==
    lk.done =>
      /\ FirstIsRoot(lk.target) =>
            /\ lk.resA.ok = lk.resB.ok
            /\ lk.resA.err = lk.resB.err
            /\ lk.resA.frag = lk.resB.frag
            /\ lk.resA.ref.path = lk.resB.ref.path
      /\ (HasRootElement(lk.target.path) /\ lk.resA.ok) =>
            /\ lk.resA.ref.path = <<RootElement>> \o AfterLastRoot(lk.target.path)
            /\ lk.resA.frag.d = lk.root.d
      /\ (~HasRootElement(lk.target.path) /\ lk.resA.ok) =>
            /\ lk.resA.ref.path = lk.refA.path \o lk.target.path
            /\ lk.resA.frag.d = lk.localA.d
      /\ lk.resA.ok => lk.resA.ref.address = lk.refA.address

\* C10 witness: a target beginning with Root resolved from two different
\* local fragments and local paths, and found
C10_Witness ==
    /\ lk.done
    /\ FirstIsRoot(lk.target) /\ Len(lk.target.path) >= 3
    /\ lk.localA # lk.localB /\ lk.localA # lk.root /\ lk.localA # UndefinedPtr
    /\ lk.refA.path # lk.refB.path /\ Len(lk.refA.path) > 1
    /\ lk.resA.ok /\ lk.resB.ok
    /\ lk.resA.frag = lk.resB.frag

(***************************************************************************)
(* setTypeForPath applied to arbitrary paths and handles.                  *)
(***************************************************************************)
MemoRefs ==
    {RefRoot(RootAddress), RefRoot(OtherAddress),
     PushDefinition(RefRoot(RootAddress), S_a), PushDefinition(RefRoot(OtherAddress), S_a),
     PushObject(RefRoot(RootAddress))}

MemoInit ==
    /\ run = 0 /\ documents = << >> /\ pending = << >> /\ stack = << >> /\ ret = NoRet
    /\ types = << >> /\ topLevels = << >> /\ toTypeLog = {} /\ failure = NoFailure
    /\ typeForPath = EmptyMemo
    /\ status = "running"
    /\ setLog = {}
    /\ RefIdle /\ LookupIdle /\ DefsIdle /\ StoreIdle

\* a failed assertion aborts the run
DoSetTypeForPath ==
    /\ status = "running"
    /\ \E path \in MemoRefs, t \in 1..MaxHandle :
         LET res == SetTypeForPath(typeForPath, path, t)
         IN  /\ typeForPath' = res.memo
             /\ status' = IF res.ok THEN "running" ELSE "failed"
             /\ setLog' = setLog \cup {[path |-> path, t |-> t, accepted |-> res.ok]}
    /\ UNCHANGED <<run, documents, pending, stack, ret, types, topLevels, failure, toTypeLog,
                   refVars, lookupVars, defsVars, storeVars>>

MemoNext == DoSetTypeForPath

MemoSpec == MemoInit /\ [][MemoNext]_vars

\* C4: the memo table is write-once per key: a setTypeForPath call on a path
\* bound to a different handle fails and leaves the binding in place, so
\* every handle ever accepted for a path is still the one stored for it.
C4_MemoWriteOnce ==
    \A c \in setLog :
        /\ MemoHas(typeForPath, c.path)
        /\ c.accepted => MemoGet(typeForPath, c.path) = c.t
        /\ ~c.accepted => (status = "failed" /\ MemoGet(typeForPath, c.path) # c.t)

\* C4 witness: a call was rejected, after a binding of the same path to
\* another handle was accepted
C4_Witness ==
    \E c \in setLog, e \in setLog :
        /\ ~c.accepted /\ e.accepted
        /\ RefImmutable(c.path) = RefImmutable(e.path)
        /\ e.t # c.t
        /\ MemoGet(typeForPath, c.path) = e.t

\* C8 as stated: two References share a memo key if and only if both their
\* address and their element sequence are equal, so References with equal
\* element sequences and different addresses never share a memo entry.
C8_KeyIsAddressAndPath ==
    \A c \in setLog, e \in setLog :
        (RefImmutable(c.path) = RefImmutable(e.path))
            <=> (c.path.address = e.path.address /\ c.path.path = e.path.path)

(***************************************************************************)
(* addTypesInSchema: the conversion run as a machine with an explicit call *)
(* stack.  One action is the code between two calls or returns of the      *)
(* recursive functions toType, convertToType, fromTypeName and makeClass.  *)
(***************************************************************************)
Frame(fn, pc, schema, path) ==
    [fn |-> fn, pc |-> pc, schema |-> schema, path |-> path,
     typeName |-> << >>,      \* fromTypeName: its typeName argument
     hasTypes |-> FALSE,      \* convertToType: jsonTypes !== undefined
     names |-> << >>,         \* convertToType: jsonTypes; makeClass: the property names
     required |-> << >>,      \* fromTypeName, makeClass: the required names
     obj |-> UndefinedPtr,    \* makeClass: its properties argument
     h |-> 0,                 \* convertToType: intersectionType
     u |-> 0,                 \* the unionType being filled
     i |-> 0,                 \* index of the next case, type name or property
     sub |-> << >>,           \* handles collected for u (typesInUnion, unionTypes)
     acc |-> << >>,           \* convertToType: types
     props |-> {},            \* makeClass: the properties converted so far
     boundOnEntry |-> FALSE,  \* convertToType: was the path bound when it was called
     entry |-> <<0, 0>>]      \* toType: sizes of the memo table and the arena at its miss

\* the variables of the harnesses, which a run leaves alone
others == <<r, origin, rt, lk, setLog, dr, schemas, getLog>>

Top == stack[Len(stack)]

Pop == SubSeq(stack, 1, Len(stack) - 1)

ReplaceTop(f) == [stack EXCEPT ![Len(stack)] = f]

InFrame(fn, pc) == status = "running" /\ stack # << >> /\ Top.fn = fn /\ Top.pc = pc

SchemaField(f, key) == PtrGet(f.schema, key)

\* a panic or failed assertion: the exception unwinds the whole run; what
\* the builder and the memo table already hold stays
Abort(msg, at, ts, memo) ==
    /\ status' = "failed"
    /\ failure' = [msg |-> msg, at |-> at]
    /\ stack' = << >>
    /\ ret' = NoRet
    /\ types' = ts
    /\ typeForPath' = memo
    /\ UNCHANGED <<run, documents, pending, topLevels, toTypeLog, others>>

\* the top frame, left as caller, calls callee; a call stack that is full
\* ends the run
Call(caller, callee, ts) ==
    /\ IF Len(stack) >= MaxStack
       THEN status' = "overflow" /\ stack' = << >>
       ELSE status' = status /\ stack' = Append(ReplaceTop(caller), callee)
    /\ ret' = NoRet
    /\ types' = ts
    /\ UNCHANGED <<run, documents, pending, topLevels, failure, typeForPath, toTypeLog, others>>

\* the top frame returns h
Return(h, ts, memo, log) ==
    /\ stack' = Pop
    /\ ret' = [defined |-> TRUE, h |-> h, fn |-> Top.fn, schema |-> Top.schema,
               path |-> Top.path]
    /\ types' = ts
    /\ typeForPath' = memo
    /\ toTypeLog' = log
    /\ UNCHANGED <<run, documents, pending, topLevels, status, failure, others>>

\* the top frame goes on, as f
Step(f, ts, memo) ==
    /\ stack' = ReplaceTop(f)
    /\ ret' = NoRet
    /\ types' = ts
    /\ typeForPath' = memo
    /\ UNCHANGED <<run, documents, pending, topLevels, status, failure, toTypeLog, others>>

Root == RootPtr(run)

EngineInit ==
    /\ run \in 1..NCases
    /\ documents = [d \in {run} |-> Cases[d].doc]
    /\ pending = Cases[run].refs
    /\ stack = << >>
    /\ ret = NoRet
    /\ typeForPath = EmptyMemo
    /\ types = << >>
    /\ topLevels = << >>
    /\ status = "start"
    /\ failure = NoFailure
    /\ toTypeLog = {}
    /\ RefIdle /\ LookupIdle /\ MemoIdle /\ DefsIdle /\ StoreIdle

\* const root = checkStringMap(rootJson)
CheckRoot ==
    /\ status = "start"
    /\ IF IsStringMap(Deref(Root))
       THEN status' = "running" /\ failure' = failure
       ELSE status' = "failed" /\ failure' = [msg |-> "Value must be an object", at |-> << >>]
    /\ UNCHANGED <<run, documents, pending, stack, ret, typeForPath, types, topLevels, toTypeLog, others>>

\* references.forEach: resolve the next top-level reference and call toType
ForEachReference ==
    /\ status = "running" /\ stack = << >> /\ ~ret.defined /\ pending # << >>
    /\ LET res == LookupRef(pending[1][2], Root, Root, RefRoot(RootAddress))
       IN  IF ~res.ok
           THEN Abort(res.err, << >>, types, typeForPath)
           ELSE /\ stack' = <<Frame("toType", "enter", res.frag, res.ref)>>
                /\ UNCHANGED <<run, documents, pending, ret, typeForPath, types, topLevels, status,
                               failure, toTypeLog, others>>

\* typeBuilder.addTopLevel(topLevelName, t)
RegisterTopLevel ==
    /\ status = "running" /\ stack = << >> /\ ret.defined
    /\ topLevels' = AddTopLevel(topLevels, pending[1][1], ret.h)
    /\ pending' = Tail(pending)
    /\ ret' = NoRet
    /\ UNCHANGED <<run, documents, stack, typeForPath, types, status, failure, toTypeLog, others>>

\* forEach has visited every reference: addTypesInSchema returns
Finish ==
    /\ status = "running" /\ stack = << >> /\ ~ret.defined /\ pending = << >>
    /\ status' = "done"
    /\ UNCHANGED <<run, documents, pending, stack, ret, typeForPath, types, topLevels, failure, toTypeLog,
                   others>>

(***************************************************************************)
(* toType                                                                  *)
(***************************************************************************)
\* faulty variant: the lookup never finds the path
ToTypeLookup_Miss(memo, path) == [hit |-> FALSE, h |-> 0]

\* typeForPath.get(path.immutable)
ToTypeLookup(memo, path) ==
    IF MemoHas(memo, path) THEN [hit |-> TRUE, h |-> MemoGet(memo, path)]
    ELSE [hit |-> FALSE, h |-> 0]

ToTypeEnter ==
    /\ InFrame("toType", "enter")
    /\ LET look == ToTypeLookup(typeForPath, Top.path)
       IN  IF look.hit
           THEN Return(look.h, types, typeForPath,
                       toTypeLog \cup {[path |-> RefImmutable(Top.path), h |-> look.h,
                                        hit |-> TRUE]})
           ELSE Call([Top EXCEPT !.pc = "bind",
                                 !.entry = <<Cardinality(DOMAIN typeForPath), Len(types)>>],
                     [Frame("convertToType", "start", Top.schema, Top.path)
                        EXCEPT !.boundOnEntry = RefImmutable(Top.path) \in DOMAIN typeForPath],
                     types)

\* setTypeForPath(path, result); return result
ToTypeBind ==
    /\ InFrame("toType", "bind") /\ ret.defined
    /\ LET set == SetTypeForPath(typeForPath, Top.path, ret.h)
       IN  IF ~set.ok
           THEN Abort("Trying to set path again to different type", << >>, types, typeForPath)
           ELSE Return(ret.h, types, set.memo,
                       toTypeLog \cup {[path |-> RefImmutable(Top.path), h |-> ret.h,
                                        hit |-> FALSE]})

(***************************************************************************)
(* convertToType                                                           *)
(***************************************************************************)
IsDefined(ptr) == Deref(ptr).t # "undefined"

\* schema.$ref !== undefined
ConvertRef ==
    /\ InFrame("convertToType", "start")
    /\ IsDefined(SchemaField(Top, S_ref))
    /\ LET refValue == Deref(SchemaField(Top, S_ref))
       IN  IF refValue.t # "string"
           THEN Abort("$ref must be a string", << >>, types, typeForPath)
           ELSE LET ref == RefParseString(Top.path.address, refValue.s)
                    res == LookupRef(ref, Root, Top.schema, Top.path)
                IN  IF ~res.ok
                    THEN Abort(res.err, << >>, types, typeForPath)
                    ELSE Call([Top EXCEPT !.pc = "refReturn"],
                              Frame("toType", "enter", res.frag, res.ref), types)

\* return toType(target, targetPath, attributes)
ConvertRefReturn ==
    /\ InFrame("convertToType", "refReturn") /\ ret.defined
    /\ Return(ret.h, types, typeForPath, toTypeLog)

\* faulty variant: an enum keyword is never taken for a list
IsEnumList_Never(f) == FALSE

IsEnumList(f) == IsArray(Deref(SchemaField(f, S_enum)))

\* Array.isArray(schema.enum)
ConvertEnum ==
    /\ InFrame("convertToType", "start")
    /\ ~IsDefined(SchemaField(Top, S_ref))
    /\ IsEnumList(Top)
    /\ LET IsNotNull(c) == c.t # "null"
           all == Deref(SchemaField(Top, S_enum)).el
           haveNull == \E i \in 1..Len(all) : all[i].t = "null"
           cases == SelectSeq(all, IsNotNull)
       IN  IF \E i \in 1..Len(cases) : cases[i].t # "string"
           THEN Abort("Non-string enum cases are not supported", RefToString(Top.path),
                      types, typeForPath)
           ELSE LET tref == GetEnumType(types, OrderedSet([i \in 1..Len(cases) |-> cases[i].s]))
                    null == GetPrimitiveType(tref.types, "null")
                    union == GetUnionType(null.types, OrderedSet(<<tref.h, null.h>>))
                IN  IF haveNull
                    THEN Return(union.h, union.types, typeForPath, toTypeLog)
                    ELSE Return(tref.h, tref.types, typeForPath, toTypeLog)

\* checkTypeList(typeOrTypes)
CheckTypeList(v) ==
    IF v.t = "string" THEN [ok |-> TRUE, names |-> <<v.s>>, err |-> ""]
    ELSE IF v.t = "array"
    THEN IF \E i \in 1..Len(v.el) : v.el[i].t # "string"
         THEN [ok |-> FALSE, names |-> << >>, err |-> "element of type is not a string"]
         ELSE IF v.el = << >>
         THEN [ok |-> FALSE, names |-> << >>,
               err |-> "JSON Schema must specify at least one type"]
         ELSE [ok |-> TRUE, names |-> OrderedSet([i \in 1..Len(v.el) |-> v.el[i].s]),
               err |-> ""]
    ELSE [ok |-> FALSE, names |-> << >>,
          err |-> "type is neither a string or array of strings"]

\* jsonTypes: from schema.type, or ["object"] when properties or
\* additionalProperties is present, or undefined
JsonTypes(f) ==
    IF IsDefined(SchemaField(f, S_type))
    THEN LET list == CheckTypeList(Deref(SchemaField(f, S_type)))
         IN  [ok |-> list.ok, defined |-> TRUE, names |-> list.names, err |-> list.err]
    ELSE IF IsDefined(SchemaField(f, S_properties))
            \/ IsDefined(SchemaField(f, S_additionalProperties))
    THEN [ok |-> TRUE, defined |-> TRUE, names |-> <<S_object>>, err |-> ""]
    ELSE [ok |-> TRUE, defined |-> FALSE, names |-> << >>, err |-> ""]

\* faulty variant: the intersection is bound to its path only when toType returns
BindIntersection_Late(memo, path, t) == [ok |-> TRUE, memo |-> memo]

\* setTypeForPath(path, intersectionType), before any member is converted
BindIntersection(memo, path, t) == SetTypeForPath(memo, path, t)

\* neither $ref nor an enum list: the type list is checked, the intersection
\* is allocated and bound to the path
ConvertIntersection ==
    /\ InFrame("convertToType", "start")
    /\ ~IsDefined(SchemaField(Top, S_ref))
    /\ ~IsEnumList(Top)
    /\ LET jsonTypes == JsonTypes(Top)
           inter == GetUniqueIntersectionType(types)
           set == BindIntersection(typeForPath, Top.path, inter.h)
       IN  IF ~jsonTypes.ok
           THEN Abort(jsonTypes.err, << >>, types, typeForPath)
           ELSE IF ~set.ok
           THEN Abort("Trying to set path again to different type", << >>,
                      inter.types, typeForPath)
           ELSE Step([Top EXCEPT !.pc = "allOf", !.h = inter.h,
                                 !.hasTypes = jsonTypes.defined, !.names = jsonTypes.names],
                     inter.types, set.memo)

\* the array of cases a frame at a cases pc walks, and the tag of its elements
CasesKey(pc) ==
    CASE pc = "allOfCases" -> S_allOf
      [] pc = "oneOfCases" -> S_oneOf
      [] pc = "anyOfCases" -> S_anyOf

CasesKind(pc) ==
    CASE pc = "allOfCases" -> "AllOf"
      [] pc = "oneOfCases" -> "OneOf"
      [] pc = "anyOfCases" -> "AnyOf"

CasesPcs == {"allOfCases", "oneOfCases", "anyOfCases"}

InCases == status = "running" /\ stack # << >> /\ Top.fn = "convertToType" /\ Top.pc \in CasesPcs

\* schema.allOf !== undefined: makeTypesFromCases(schema.allOf, AllOf)
ConvertAllOf ==
    /\ InFrame("convertToType", "allOf")
    /\ LET cases == Deref(SchemaField(Top, S_allOf))
       IN  IF cases.t = "undefined"
           THEN Step([Top EXCEPT !.pc = "oneOf"], types, typeForPath)
           ELSE IF ~IsArray(cases)
           THEN Abort("Cases are not an array", << >>, types, typeForPath)
           ELSE Step([Top EXCEPT !.pc = "allOfCases", !.i = 0, !.sub = << >>],
                     types, typeForPath)

\* if (schema.oneOf) / if (schema.anyOf): convertOneOrAnyOf allocates the
\* union, then makeTypesFromCases checks that the cases are an array
ConvertOneOrAnyOf(pc, key, casesPc, nextPc) ==
    /\ InFrame("convertToType", pc)
    /\ LET cases == Deref(SchemaField(Top, key))
           union == GetUniqueUnionType(types)
       IN  IF ~Truthy(cases)
           THEN Step([Top EXCEPT !.pc = nextPc], types, typeForPath)
           ELSE IF ~IsArray(cases)
           THEN Abort("Cases are not an array", << >>, union.types, typeForPath)
           ELSE Step([Top EXCEPT !.pc = casesPc, !.u = union.h, !.i = 0, !.sub = << >>],
                     union.types, typeForPath)

ConvertOneOf == ConvertOneOrAnyOf("oneOf", S_oneOf, "oneOfCases", "anyOf")

ConvertAnyOf == ConvertOneOrAnyOf("anyOf", S_anyOf, "anyOfCases", "types")

\* cases.map: toType(checkStringMap(t), path.push({ kind, index }), ...)
CasesCall ==
    /\ InCases /\ ~ret.defined
    /\ Top.i < Len(Deref(SchemaField(Top, CasesKey(Top.pc))).el)
    /\ LET t == PtrIndex(SchemaField(Top, CasesKey(Top.pc)),
                         [nan |-> FALSE, neg |-> FALSE, n |-> Top.i])
       IN  IF ~IsStringMap(Deref(t))
           THEN Abort("Value must be an object", << >>, types, typeForPath)
           ELSE Call(Top, Frame("toType", "enter", t,
                                PushCase(Top.path, CasesKind(Top.pc), Top.i)), types)

CasesCollect ==
    /\ InCases /\ ret.defined
    /\ Step([Top EXCEPT !.sub = Append(@, ret.h), !.i = @ + 1], types, typeForPath)

\* faulty variant: the union of a oneOf or anyOf is left without members
SetCasesMembers_Skip(ts, h, members) == ts

\* typeBuilder.setSetOperationMembers(unionType, OrderedSet(makeTypesFromCases(...)))
SetCasesMembers(ts, h, members) == SetSetOperationMembers(ts, h, OrderedSet(members))

\* every case is converted: allOf pushes the types themselves, oneOf and
\* anyOf fill their union and push it
CasesDone ==
    /\ InCases /\ ~ret.defined
    /\ Top.i = Len(Deref(SchemaField(Top, CasesKey(Top.pc))).el)
    /\ IF Top.pc = "allOfCases"
       THEN Step([Top EXCEPT !.pc = "oneOf", !.acc = @ \o Top.sub], types, typeForPath)
       ELSE Step([Top EXCEPT !.pc = IF Top.pc = "oneOfCases" THEN "anyOf" ELSE "types",
                             !.acc = Append(@, Top.u)],
                 SetCasesMembers(types, Top.u, Top.sub), typeForPath)

\* jsonTypes !== undefined: one name is converted under path.pushObject(),
\* several under path.pushType(index) into a new union
ConvertTypes ==
    /\ InFrame("convertToType", "types")
    /\ LET union == GetUniqueUnionType(types)
       IN  IF ~Top.hasTypes
           THEN Step([Top EXCEPT !.pc = "finish"], types, typeForPath)
           ELSE IF Len(Top.names) = 1
           THEN Call([Top EXCEPT !.pc = "typeReturn"],
                     [Frame("fromTypeName", "start", Top.schema, PushObject(Top.path))
                        EXCEPT !.typeName = Top.names[1]],
                     types)
           ELSE Step([Top EXCEPT !.pc = "typeList", !.u = union.h, !.i = 0, !.sub = << >>],
                     union.types, typeForPath)

ConvertTypeReturn ==
    /\ InFrame("convertToType", "typeReturn") /\ ret.defined
    /\ Step([Top EXCEPT !.pc = "finish", !.acc = Append(@, ret.h)], types, typeForPath)

ConvertTypeListCall ==
    /\ InFrame("convertToType", "typeList") /\ ~ret.defined
    /\ Top.i < Len(Top.names)
    /\ Call(Top, [Frame("fromTypeName", "start", Top.schema, PushType(Top.path, Top.i))
                    EXCEPT !.typeName = Top.names[Top.i + 1]], types)

ConvertTypeListCollect ==
    /\ InFrame("convertToType", "typeList") /\ ret.defined
    /\ Step([Top EXCEPT !.sub = Append(@, ret.h), !.i = @ + 1], types, typeForPath)

ConvertTypeListDone ==
    /\ InFrame("convertToType", "typeList") /\ ~ret.defined
    /\ Top.i = Len(Top.names)
    /\ Step([Top EXCEPT !.pc = "finish", !.acc = Append(@, Top.u)],
            SetSetOperationMembers(types, Top.u, OrderedSet(Top.sub)), typeForPath)

\* typeBuilder.setSetOperationMembers(intersectionType, OrderedSet(types))
ConvertFinish ==
    /\ InFrame("convertToType", "finish")
    /\ Return(Top.h, SetSetOperationMembers(types, Top.h, OrderedSet(Top.acc)),
              typeForPath, toTypeLog)

(***************************************************************************)
(* fromTypeName, makeClass, makeMap                                        *)
(***************************************************************************)
\* checkStringArray(arr)
CheckStringArray(v) ==
    IF v.t # "array"
    THEN [ok |-> FALSE, strings |-> << >>, err |-> "Expected a string array"]
    ELSE IF \E i \in 1..Len(v.el) : v.el[i].t # "string"
    THEN [ok |-> FALSE, strings |-> << >>, err |-> "Expected string"]
    ELSE [ok |-> TRUE, strings |-> [i \in 1..Len(v.el) |-> v.el[i].s], err |-> ""]

\* case "object": the required names are checked, the union is allocated and
\* bound to the path
FromTypeNameObject ==
    /\ InFrame("fromTypeName", "start")
    /\ Top.typeName = S_object
    /\ LET requiredValue == Deref(SchemaField(Top, S_required))
           required == IF requiredValue.t = "undefined"
                       THEN [ok |-> TRUE, strings |-> << >>, err |-> ""]
                       ELSE CheckStringArray(requiredValue)
           union == GetUniqueUnionType(types)
           set == SetTypeForPath(typeForPath, Top.path, union.h)
       IN  IF ~required.ok
           THEN Abort(required.err, << >>, types, typeForPath)
           ELSE IF ~set.ok
           THEN Abort("Trying to set path again to different type", << >>,
                      union.types, typeForPath)
           ELSE Step([Top EXCEPT !.pc = "properties", !.u = union.h,
                                 !.required = required.strings, !.sub = << >>],
                     union.types, set.memo)

\* schema.properties !== undefined: makeClass(path, ..., checkStringMap(schema.properties),
\* required).  makeClass first reads the description of every property
\* schema, which throws a TypeError on a null one.
FromTypeNameProperties ==
    /\ InFrame("fromTypeName", "properties")
    /\ LET properties == SchemaField(Top, S_properties)
           keys == ObjKeys(Deref(properties))
       IN  IF ~IsDefined(properties)
           THEN Step([Top EXCEPT !.pc = "additional"], types, typeForPath)
           ELSE IF ~IsStringMap(Deref(properties))
           THEN Abort("Value must be an object", << >>, types, typeForPath)
           ELSE IF \E i \in 1..Len(keys) : Deref(PtrGet(properties, keys[i])).t = "null"
           THEN Abort("TypeError", << >>, types, typeForPath)
           ELSE Call([Top EXCEPT !.pc = "classReturn"],
                     [Frame("makeClass", "props", Top.schema, Top.path)
                        EXCEPT !.obj = properties, !.names = keys,
                               !.required = Top.required],
                     types)

\* propertiesMap.map: toType(checkStringMap(propSchema),
\* path.push("properties", propName), ...)
MakeClassCall ==
    /\ InFrame("makeClass", "props") /\ ~ret.defined
    /\ Top.i < Len(Top.names)
    /\ LET propName == Top.names[Top.i + 1]
           propSchema == PtrGet(Top.obj, propName)
       IN  IF ~IsStringMap(Deref(propSchema))
           THEN Abort("Value must be an object", << >>, types, typeForPath)
           ELSE Call(Top, Frame("toType", "enter", propSchema,
                                Push(Push(Top.path, S_properties), propName)), types)

\* faulty variant: a property is optional when it is named in required
IsOptional_Inverted(required, propName) == \E i \in 1..Len(required) : required[i] = propName

\* const isOptional = !required.has(propName)
IsOptional(required, propName) == ~\E i \in 1..Len(required) : required[i] = propName

MakeClassCollect ==
    /\ InFrame("makeClass", "props") /\ ret.defined
    /\ LET propName == Top.names[Top.i + 1]
       IN  Step([Top EXCEPT !.props = @ \cup {<<propName, ret.h,
                                                IsOptional(Top.required, propName)>>},
                            !.i = @ + 1],
                types, typeForPath)

\* typeBuilder.getUniqueClassType(attributes, true, props.toOrderedMap())
MakeClassDone ==
    /\ InFrame("makeClass", "props") /\ ~ret.defined
    /\ Top.i = Len(Top.names)
    /\ LET class == GetUniqueClassType(types, Top.props)
       IN  Return(class.h, class.types, typeForPath, toTypeLog)

\* typesInUnion.push(makeClass(...))
FromTypeNameClassReturn ==
    /\ InFrame("fromTypeName", "classReturn") /\ ret.defined
    /\ Step([Top EXCEPT !.pc = "additional", !.sub = Append(@, ret.h)], types, typeForPath)

\* schema.additionalProperties !== undefined: false adds an empty class when
\* there are no properties; an object (typeof additional === "object") is
\* converted by makeMap under path.push("additionalProperties")
FromTypeNameAdditional ==
    /\ InFrame("fromTypeName", "additional")
    /\ LET additional == SchemaField(Top, S_additionalProperties)
           value == Deref(additional)
           class == GetUniqueClassType(types, {})
       IN  IF value.t = "boolean" /\ ~value.b
           THEN IF ~IsDefined(SchemaField(Top, S_properties))
                THEN Step([Top EXCEPT !.pc = "finish", !.sub = Append(@, class.h)],
                          class.types, typeForPath)
                ELSE Step([Top EXCEPT !.pc = "finish"], types, typeForPath)
           ELSE IF value.t \in {"object", "array", "null"}
           THEN IF ~IsStringMap(value)
                THEN Abort("Value must be an object", << >>, types, typeForPath)
                ELSE Call([Top EXCEPT !.pc = "mapReturn"],
                          Frame("toType", "enter", additional,
                                Push(Top.path, S_additionalProperties)), types)
           ELSE Step([Top EXCEPT !.pc = "finish"], types, typeForPath)

\* makeMap: return typeBuilder.getMapType(valuesType)
FromTypeNameMapReturn ==
    /\ InFrame("fromTypeName", "mapReturn") /\ ret.defined
    /\ LET map == GetMapType(types, ret.h)
       IN  Step([Top EXCEPT !.pc = "finish", !.sub = Append(@, map.h)], map.types, typeForPath)

\* faulty variant: only the first candidate becomes a member of the union
SetObjectMembers_First(ts, h, members) == SetSetOperationMembers(ts, h, <<members[1]>>)

\* faulty variant: the union of an object is left without members
SetObjectMembers_Skip(ts, h, members) == ts

\* typeBuilder.setSetOperationMembers(unionType, OrderedSet(typesInUnion))
SetObjectMembers(ts, h, members) == SetSetOperationMembers(ts, h, OrderedSet(members))

\* typesInUnion.length === 0: a map of any; then the union gets its members
FromTypeNameObjectFinish ==
    /\ InFrame("fromTypeName", "finish")
    /\ LET any == GetPrimitiveType(types, "any")
           map == GetMapType(any.types, any.h)
       IN  IF Top.sub = << >>
           THEN Return(Top.u, SetObjectMembers(map.types, Top.u, <<map.h>>),
                       typeForPath, toTypeLog)
           ELSE Return(Top.u, SetObjectMembers(types, Top.u, Top.sub),
                       typeForPath, toTypeLog)

\* case "array"
FromTypeNameArray ==
    /\ InFrame("fromTypeName", "start")
    /\ Top.typeName = S_array
    /\ LET items == SchemaField(Top, S_items)
           any == GetPrimitiveType(types, "any")
           array == GetArrayType(any.types, any.h)
       IN  IF ~IsDefined(items)
           THEN Return(array.h, array.types, typeForPath, toTypeLog)
           ELSE IF ~IsStringMap(Deref(items))
           THEN Abort("Value must be an object", << >>, types, typeForPath)
           ELSE Call([Top EXCEPT !.pc = "arrayReturn"],
                     Frame("toType", "enter", items, Push(Top.path, S_items)), types)

FromTypeNameArrayReturn ==
    /\ InFrame("fromTypeName", "arrayReturn") /\ ret.defined
    /\ LET array == GetArrayType(types, ret.h)
       IN  Return(array.h, array.types, typeForPath, toTypeLog)

\* the primitive a scalar type name stands for; "" for a string without a
\* recognised format, "?" for a name that is no type name
ScalarKind(f) ==
    LET format == Deref(SchemaField(f, S_format))
        IsFormat(str) == format.t = "string" /\ format.s = str
    IN  CASE f.typeName = S_boolean -> "bool"
          [] f.typeName = S_null -> "null"
          [] f.typeName = S_integer -> "integer"
          [] f.typeName = S_number -> "double"
          [] f.typeName = S_string ->
               IF IsFormat(S_date) THEN "date"
               ELSE IF IsFormat(S_time) THEN "time"
               ELSE IF IsFormat(S_date_time) THEN "date-time"
               ELSE ""
          [] OTHER -> "?"

\* case "boolean", "string", "null", "integer", "number" and default
FromTypeNameScalar ==
    /\ InFrame("fromTypeName", "start")
    /\ Top.typeName \notin {S_object, S_array}
    /\ LET kind == ScalarKind(Top)
           string == GetStringType(types)
           primitive == GetPrimitiveType(types, kind)
       IN  IF kind = "?"
           THEN Abort("not a type name", << >>, types, typeForPath)
           ELSE IF kind = ""
           THEN Return(string.h, string.types, typeForPath, toTypeLog)
           ELSE Return(primitive.h, primitive.types, typeForPath, toTypeLog)

(***************************************************************************)
(* The run.                                                                *)
(***************************************************************************)
Next ==
    \/ CheckRoot \/ ForEachReference \/ RegisterTopLevel \/ Finish
    \/ ToTypeEnter \/ ToTypeBind
    \/ ConvertRef \/ ConvertRefReturn \/ ConvertEnum \/ ConvertIntersection
    \/ ConvertAllOf \/ ConvertOneOf \/ ConvertAnyOf
    \/ CasesCall \/ CasesCollect \/ CasesDone
    \/ ConvertTypes \/ ConvertTypeReturn
    \/ ConvertTypeListCall \/ ConvertTypeListCollect \/ ConvertTypeListDone
    \/ ConvertFinish
    \/ FromTypeNameObject \/ FromTypeNameProperties
    \/ MakeClassCall \/ MakeClassCollect \/ MakeClassDone
    \/ FromTypeNameClassReturn \/ FromTypeNameAdditional \/ FromTypeNameMapReturn
    \/ FromTypeNameObjectFinish
    \/ FromTypeNameArray \/ FromTypeNameArrayReturn \/ FromTypeNameScalar

Spec == EngineInit /\ [][Next]_vars

\* the run has returned, thrown, or exhausted the call stack
Halted == status \in {"done", "failed", "overflow"}

\* The run is one synchronous call: it keeps going until it returns or
\* throws.  This is weak fairness of Next, WF_vars(Next), written out as
\* []<>~ENABLED <<Next>>_vars \/ []<><<Next>>_vars with Halted for
\* ~ENABLED <<Next>>_vars: every action needs status to be "start" or
\* "running", and in each such state one of them is enabled.
FairSpec == Spec /\ ([]<>Halted \/ []<><<Next>>_vars)


(***************************************************************************)
(* Properties of a run.                                                    *)
(***************************************************************************)
\* the frames of the call stack that are convertToType calls past the
\* allocation of their intersection
IntersectionFrames ==
    {i \in DOMAIN stack :
        stack[i].fn = "convertToType" /\ stack[i].pc \notin {"start", "refReturn"}}

\* C1: within one run, any two toType calls on equal paths return the same
\* handle, the handle the memo table holds for the path; and convertToType
\* is never called on a path that has an entry in the memo table.
C1_MemoHitReturnsStoredHandle ==
    /\ \A a \in toTypeLog, b \in toTypeLog : a.path = b.path => a.h = b.h
    /\ \A a \in toTypeLog : a.path \in DOMAIN typeForPath /\ typeForPath[a.path] = a.h
    /\ \A i \in DOMAIN stack : stack[i].fn = "convertToType" => ~stack[i].boundOnEntry

\* C1 witness: a toType call that has just returned from a hit of the memo
\* table, on a path an earlier toType call converted
C1_Witness ==
    /\ ret.defined /\ ret.fn = "toType"
    /\ \E a \in toTypeLog, b \in toTypeLog :
          /\ a.path = RefImmutable(ret.path) /\ b.path = a.path
          /\ a.hit /\ ~b.hit /\ a.h = ret.h

\* the top-level type registered under Node is an intersection of a union
\* of a class whose property next is that same intersection
NodeNextIsTopLevel ==
    /\ Len(topLevels) = 1 /\ topLevels[1][1] = S_Node
    /\ LET top == topLevels[1][2]
       IN  /\ types[top].kind = "intersection" /\ Len(types[top].members) = 1
           /\ LET union == types[top].members[1]
              IN  /\ types[union].kind = "union" /\ Len(types[union].members) = 1
                  /\ LET class == types[union].members[1]
                     IN  /\ types[class].kind = "class"
                         /\ \E prop \in types[class].props :
                               prop[1] = S_next /\ prop[2] = top

\* C2: the conversion of the top-level reference #/definitions/Node of the
\* schema whose Node has a property next that refers to Node (run 1)
\* terminates, and the type of next is the handle registered as Node.
C2_NodeCycleTerminates ==
    (run = 1 /\ status = "start") ~> (run = 1 /\ status = "done" /\ NodeNextIsTopLevel)

\* C2 witness: the run of the Node schema has returned
C2_Witness == run = 1 /\ status = "done" /\ NodeNextIsTopLevel

\* C3 as stated: the run terminates on every cycle of references.  A call
\* returns only if it does not re-enter itself in the state it started in:
\* toType is deterministic in its schema, its path, the memo table and the
\* arena, so no two active toType calls have the same schema and path and
\* met the same memo table and arena.
C3_TerminatesOnEveryCycle ==
    \A i \in DOMAIN stack, j \in DOMAIN stack :
        (/\ i < j
         /\ stack[i].fn = "toType" /\ stack[i].pc = "bind"
         /\ stack[j].fn = "toType" /\ stack[j].pc = "bind")
        => ~(/\ stack[i].schema = stack[j].schema
             /\ stack[i].path = stack[j].path
             /\ stack[i].entry = stack[j].entry)

\* C5: once convertToType has passed its $ref and enum branches, its
\* intersection is in the arena and bound to its path, which it is from
\* before the first member is converted until the call returns; a toType
\* call on that path made meanwhile returns the intersection.
C5_IntersectionBoundBeforeMembers ==
    \A i \in IntersectionFrames :
        LET f == stack[i]
        IN  /\ f.h \in DOMAIN types /\ types[f.h].kind = "intersection"
            /\ MemoHas(typeForPath, f.path) /\ MemoGet(typeForPath, f.path) = f.h
            /\ (f.pc = "allOf" => f.acc = << >> /\ types[f.h].sets = 0)
            /\ (ret.defined /\ ret.fn = "toType"
                    /\ RefImmutable(ret.path) = RefImmutable(f.path)) => ret.h = f.h

\* C5 witness: a toType call on the path of an intersection whose members
\* are being converted has returned the intersection
C5_Witness ==
    /\ ret.defined /\ ret.fn = "toType"
    /\ \E i \in IntersectionFrames :
          /\ i < Len(stack)
          /\ RefImmutable(ret.path) = RefImmutable(stack[i].path)
          /\ ret.h = stack[i].h
          /\ types[stack[i].h].sets = 0

\* the unions and intersections allocated without members
ForwardDeclared == {h \in DOMAIN types : types[h].forward}

\* C6: setSetOperationMembers is never called a second time on a union or
\* intersection allocated without members, and in a run that completes it
\* has been called once on each of them.
C6_MembersSetExactlyOnce ==
    /\ \A h \in ForwardDeclared : types[h].sets <= 1
    /\ status = "done" => \A h \in ForwardDeclared : types[h].sets = 1

\* C6 witness: a completed run that allocated intersections and unions of
\* both origins, each with its members set
C6_Witness ==
    /\ status = "done"
    /\ \E h \in ForwardDeclared, g \in ForwardDeclared, k \in ForwardDeclared :
          /\ types[h].kind = "intersection" /\ types[g].kind = "union" /\ types[k].kind = "union"
          /\ g # k
          /\ types[h].sets = 1 /\ types[g].sets = 1 /\ types[k].sets = 1


\* the fragment has a $ref keyword; it has an enum keyword that is a list
HasRef(schema) == Deref(PtrGet(schema, S_ref)).t # "undefined"
HasEnumList(schema) == Deref(PtrGet(schema, S_enum)).t = "array"

\* the node is an enum, or the union of an enum and null
IsEnumResult(h) ==
    \/ types[h].kind = "enum"
    \/ /\ types[h].kind = "union" /\ ~types[h].forward /\ Len(types[h].members) = 2
       /\ types[types[h].members[1]].kind = "enum"
       /\ types[types[h].members[2]].kind = "primitive"
       /\ types[types[h].members[2]].prim = "null"

\* C11: convertToType on a fragment with $ref only resolves the reference
\* and returns the node of the target; on a fragment without $ref whose enum
\* is a list it returns the enum or the union of the enum and null at once;
\* only a fragment with neither reaches the intersection and its members.
C11_DispatchPrecedence ==
    /\ \A i \in DOMAIN stack :
          LET f == stack[i]
          IN  f.fn = "convertToType" =>
                /\ HasRef(f.schema) <=> f.pc = "refReturn" \/ (f.pc = "start" /\ HasRef(f.schema))
                /\ (~HasRef(f.schema) /\ HasEnumList(f.schema)) => f.pc = "start"
    /\ (ret.defined /\ ret.fn = "convertToType") =>
          IF HasRef(ret.schema)
          THEN LET value == Deref(PtrGet(ret.schema, S_ref))
                   target == LookupRef(RefParseString(ret.path.address, value.s), Root,
                                       ret.schema, ret.path)
               IN  /\ value.t = "string" /\ target.ok
                   /\ MemoHas(typeForPath, target.ref)
                   /\ MemoGet(typeForPath, target.ref) = ret.h
          ELSE IF HasEnumList(ret.schema) THEN IsEnumResult(ret.h)
          ELSE types[ret.h].kind = "intersection" /\ types[ret.h].forward

\* C11 witness: the run of a document whose fragment a has $ref, enum, type,
\* properties and allOf and whose target b has enum, type and oneOf is
\* complete; both names are registered to one enum node, the only node made
C11_Witness ==
    /\ status = "done"
    /\ HasRef(PtrGet(PtrGet(Root, S_definitions), S_a))
    /\ HasEnumList(PtrGet(PtrGet(Root, S_definitions), S_a))
    /\ Deref(PtrGet(PtrGet(PtrGet(Root, S_definitions), S_b), S_oneOf)).t = "array"
    /\ Len(types) = 1 /\ types[1].kind = "enum" /\ types[1].cases = <<S_a, S_b>>
    /\ topLevels = <<<<S_a, 1>>, <<S_b, 1>>>>


\* index of the first occurrence of the string str in the list of JSON values
FirstIndex(all, str) ==
    CHOOSE i \in 1..Len(all) :
        /\ all[i].t = "string" /\ all[i].s = str
        /\ \A j \in 1..(i - 1) : ~(all[j].t = "string" /\ all[j].s = str)

\* cases holds each string of the list once, in the order of first occurrence
IsDeduplicated(cases, all) ==
    /\ \A i \in 1..Len(cases) : \E j \in 1..Len(all) : all[j].t = "string" /\ all[j].s = cases[i]
    /\ \A j \in 1..Len(all) : all[j].t = "string" => \E i \in 1..Len(cases) : cases[i] = all[j].s
    /\ \A i \in 1..Len(cases), k \in 1..Len(cases) :
          i < k => FirstIndex(all, cases[i]) < FirstIndex(all, cases[k])

\* C12: convertToType on a fragment without $ref whose enum list holds only
\* strings and null returns an enum over the strings, each once and in the
\* order of first occurrence, wrapped in a union of exactly the enum and
\* null exactly when null is in the list.
C12_EnumResult ==
    (ret.defined /\ ret.fn = "convertToType" /\ ~HasRef(ret.schema) /\ HasEnumList(ret.schema)) =>
        LET all == Deref(PtrGet(ret.schema, S_enum)).el
            haveNull == \E j \in 1..Len(all) : all[j].t = "null"
            node == types[ret.h]
        IN  IF haveNull
            THEN /\ node.kind = "union" /\ Len(node.members) = 2
                 /\ types[node.members[1]].kind = "enum"
                 /\ IsDeduplicated(types[node.members[1]].cases, all)
                 /\ types[node.members[2]].kind = "primitive"
                 /\ types[node.members[2]].prim = "null"
            ELSE node.kind = "enum" /\ IsDeduplicated(node.cases, all)

\* C12 witness: the enum list ["a", "b", null, "a"] has been converted to
\* the union of the enum over a, b and null
C12_Witness ==
    /\ ret.defined /\ ret.fn = "convertToType" /\ ~HasRef(ret.schema) /\ HasEnumList(ret.schema)
    /\ Len(Deref(PtrGet(ret.schema, S_enum)).el) = 4
    /\ types[ret.h].kind = "union"
    /\ types[types[ret.h].members[1]].cases = <<S_a, S_b>>

\* the JSON values naming the types of a fragment: the string itself or the
\* elements of the list
TypeValues(schema) ==
    LET v == Deref(PtrGet(schema, S_type))
    IN  IF v.t = "string" THEN <<v>> ELSE IF v.t = "array" THEN v.el ELSE << >>

\* the type field is a string or a non-empty list of strings
HasTypeNames(schema) ==
    LET all == TypeValues(schema)
    IN  all # << >> /\ \A j \in 1..Len(all) : all[j].t = "string"

DistinctTypeNames(schema) ==
    LET all == TypeValues(schema) IN Cardinality({all[j].s : j \in 1..Len(all)})

\* the node h is the one the type name stands for
NodeIsFor(h, name) ==
    LET node == types[h]
    IN  CASE name = S_boolean -> node.kind = "primitive" /\ node.prim = "bool"
          [] name = S_null -> node.kind = "primitive" /\ node.prim = "null"
          [] name = S_integer -> node.kind = "primitive" /\ node.prim = "integer"
          [] name = S_number -> node.kind = "primitive" /\ node.prim = "double"
          [] name = S_string ->
               \/ node.kind = "string"
               \/ node.kind = "primitive" /\ node.prim \in {"date", "time", "date-time"}
          [] name = S_object -> node.kind = "union" /\ node.forward
          [] name = S_array -> node.kind = "array"
          [] OTHER -> FALSE

\* C13: a type field that normalizes to k >= 2 distinct names contributes one
\* union of exactly k members to the intersection, the i-th name (from 0, in
\* the order of first occurrence) converted under the path extended by
\* Type(i); a type field that normalizes to one name contributes the node of
\* that name itself, never a union made around it.
C13_TypeListUnion ==
    \A n \in DOMAIN stack :
        LET f == stack[n]
            all == TypeValues(f.schema)
            k == DistinctTypeNames(f.schema)
        IN  (f.fn = "convertToType" /\ ~HasRef(f.schema) /\ ~HasEnumList(f.schema)
             /\ HasTypeNames(f.schema)) =>
              /\ f.pc = "typeList" => k >= 2
              /\ f.pc = "typeReturn" => k = 1
              /\ (f.pc = "typeList" /\ n < Len(stack)) =>
                    /\ stack[n + 1].fn = "fromTypeName"
                    /\ stack[n + 1].path.address = f.path.address
                    /\ stack[n + 1].path.path = Append(f.path.path, TypeElement(f.i))
                    /\ \E j \in 1..Len(all) :
                          /\ all[j].s = stack[n + 1].typeName
                          /\ Cardinality({all[m].s : m \in 1..FirstIndex(all, all[j].s)}) = f.i + 1
              /\ (f.pc = "finish" /\ k >= 2) =>
                    LET u == types[f.acc[Len(f.acc)]]
                    IN  /\ u.kind = "union" /\ u.forward /\ u.sets = 1
                        /\ Len(u.members) = k
                        /\ \A i \in 1..k : \A j \in 1..Len(all) :
                              Cardinality({all[m].s : m \in 1..FirstIndex(all, all[j].s)}) = i
                                  => NodeIsFor(u.members[i], all[j].s)
              /\ (f.pc = "finish" /\ k = 1) =>
                    LET c == f.acc[Len(f.acc)]
                    IN  /\ NodeIsFor(c, all[1].s)
                        /\ all[1].s # S_object => types[c].kind # "union"
                        /\ all[1].s = S_object => types[c].sets <= 1

\* C13 witness: the list ["null", "integer", "null"] has contributed a union
\* of null and integer, the list ["string", "string"] the string node
C13_Witness ==
    /\ status = "done" /\ Len(topLevels) = 3
    /\ \E h \in 1..Len(types) :
          /\ types[h].kind = "union" /\ Len(types[h].members) = 2
          /\ NodeIsFor(types[h].members[1], S_null)
          /\ NodeIsFor(types[h].members[2], S_integer)
    /\ LET a == types[topLevels[1][2]]
       IN  Len(a.members) = 1 /\ types[a.members[1]].kind = "string"
    /\ Len(TypeValues(PtrGet(PtrGet(Root, S_definitions), S_a))) = 2

\* C14: fromTypeName called for the only type name of a fragment receives the
\* fragment's path extended by Object when the name is object and the
\* fragment's path itself for every other name, so that the items of an
\* array fragment at path P are converted under P/items.
C14_SingleNamePath ==
    \A n \in DOMAIN stack :
        (n > 1 /\ stack[n].fn = "fromTypeName" /\ stack[n - 1].fn = "convertToType"
         /\ stack[n - 1].pc = "typeReturn") =>
            LET P == stack[n - 1].path
            IN  /\ stack[n].path.address = P.address
                /\ stack[n].path.path = IF stack[n].typeName = S_object
                                        THEN Append(P.path, ObjectElement)
                                        ELSE P.path
                /\ (stack[n].pc = "arrayReturn" /\ n < Len(stack)) =>
                      stack[n + 1].path.path = Append(P.path, KeyOrIndexElement(S_items))

\* the kinds of the members the union of an object fragment is to have:
\* read from the document
ObjectMemberKinds(schema) ==
    LET properties == Deref(PtrGet(schema, S_properties))
        additional == Deref(PtrGet(schema, S_additionalProperties))
        class == IF properties.t # "undefined" THEN <<"class">> ELSE << >>
        empty == IF additional.t = "boolean" /\ ~additional.b /\ properties.t = "undefined"
                 THEN <<"empty class">> ELSE << >>
        map == IF additional.t = "object" THEN <<"map">> ELSE << >>
        contributed == class \o empty \o map
    IN  IF contributed = << >> THEN <<"map of any">> ELSE contributed

MemberIsOfKind(h, kind) ==
    LET node == types[h]
    IN  CASE kind = "class" -> node.kind = "class"
          [] kind = "empty class" -> node.kind = "class" /\ node.props = {}
          [] kind = "map" -> node.kind = "map"
          [] kind = "map of any" ->
               /\ node.kind = "map"
               /\ types[node.item].kind = "primitive" /\ types[node.item].prim = "any"

\* C15: the union fromTypeName returns for the name object has as members, in
\* this order, a class if properties is present, an empty class if
\* additionalProperties is false and properties is absent, a map if
\* additionalProperties is an object, and a map of any if there is none of
\* them; it has one or two members, two only when properties and an object
\* additionalProperties are both present.
C15_ObjectMembers ==
    (ret.defined /\ ret.fn = "fromTypeName" /\ types[ret.h].kind = "union") =>
        LET members == types[ret.h].members
            kinds == ObjectMemberKinds(ret.schema)
        IN  /\ Len(members) = Len(kinds)
            /\ \A i \in 1..Len(members) : MemberIsOfKind(members[i], kinds[i])
            /\ Len(members) \in {1, 2}
            /\ Len(members) = 2 <=>
                  /\ Deref(PtrGet(ret.schema, S_properties)).t # "undefined"
                  /\ Deref(PtrGet(ret.schema, S_additionalProperties)).t = "object"

\* C15 witness: a fragment with properties and an object additionalProperties
\* has returned a union of a class and a map
C15_Witness ==
    /\ ret.defined /\ ret.fn = "fromTypeName" /\ types[ret.h].kind = "union"
    /\ ObjectMemberKinds(ret.schema) = <<"class", "map">>
    /\ Len(types[ret.h].members) = 2
    /\ types[types[ret.h].members[1]].kind = "class"
    /\ types[types[ret.h].members[2]].kind = "map"

\* the class made from the properties of an object fragment: the first
\* member of its union when properties is present
ClassOf(h) == types[types[h].members[1]]

\* C16: in the class made from properties there is exactly one property per
\* key of properties, and it is optional exactly when its name is not an
\* element of the required list; without a required list every property is
\* optional, and a required name that is no key of properties adds nothing.
C16_OptionalIffNotRequired ==
    (ret.defined /\ ret.fn = "fromTypeName" /\ types[ret.h].kind = "union"
     /\ Deref(PtrGet(ret.schema, S_properties)).t # "undefined") =>
        LET properties == Deref(PtrGet(ret.schema, S_properties))
            required == Deref(PtrGet(ret.schema, S_required))
            IsRequired(name) ==
                /\ required.t = "array"
                /\ \E j \in 1..Len(required.el) :
                      required.el[j].t = "string" /\ required.el[j].s = name
            class == ClassOf(ret.h)
        IN  /\ class.kind = "class"
            /\ {p[1] : p \in class.props} = {properties.kv[i][1] : i \in 1..Len(properties.kv)}
            /\ Cardinality(class.props) = Len(properties.kv)
            /\ \A p \in class.props : p[3] <=> ~IsRequired(p[1])
            /\ required.t = "undefined" => \A p \in class.props : p[3]

\* C16 witness: properties a and b with required ["a", "x"] have made a class
\* of exactly a, not optional, and b, optional
C16_Witness ==
    /\ ret.defined /\ ret.fn = "fromTypeName" /\ types[ret.h].kind = "union"
    /\ Deref(PtrGet(ret.schema, S_required)).t = "array"
    /\ Len(Deref(PtrGet(ret.schema, S_required)).el) = 2
    /\ Deref(PtrGet(ret.schema, S_required)).el[2].s = S_x
    /\ {<<p[1], p[3]>> : p \in ClassOf(ret.h).props} = {<<S_a, FALSE>>, <<S_b, TRUE>>}

\* C17: a run that fails on a malformed fragment fails with a message that
\* carries the path of the fragment as a reference string; the documents
\* {"type": []} and {"enum": ["a", 3]}, converted at the root, fail with the
\* string of the root reference and make no node.
C17_FailureNamesPath ==
    status = "failed" =>
        /\ failure.at # << >>
        /\ (Deref(Root) \in {Doc_EmptyTypeList, Doc_BadEnum}) =>
              /\ failure.at = RefToString(RefRoot(RootAddress))
              /\ types = << >>

\* C18: a run that has failed leaves nothing in the builder: no top-level
\* is registered and no node is allocated.
C18_NoPartialGraph ==
    status = "failed" => topLevels = << >> /\ types = << >>

(***************************************************************************)
(* definitionRefsInSchema applied to arbitrary JSON values.                *)
(***************************************************************************)
\* typeof v === "object": true of objects, arrays and null
TypeofObject(v) == v.t \in {"object", "array", "null"}

\* Object.keys(v) for an object or an array: the own keys, which for an
\* array are its indices as strings
ObjectKeys(v) ==
    IF v.t = "array" THEN {NatToString(i - 1) : i \in 1..Len(v.el)}
    ELSE {v.kv[i][1] : i \in 1..Len(v.kv)}

DefinitionRefsResult(ok, map, err) == [ok |-> ok, map |-> map, err |-> err]

\* definitionRefsInSchema(rootJson, rootAddress).  The returned Map is the set
\* of its <<name, Ref>> entries.  Reading a property of null and
\* Object.keys(null) throw a TypeError; an array has no property definitions.
DefinitionRefsInSchema(rootJson, rootAddress) ==
    IF ~TypeofObject(rootJson) THEN DefinitionRefsResult(TRUE, {}, "")
    ELSE IF rootJson.t = "null" THEN DefinitionRefsResult(FALSE, {}, "TypeError")
    ELSE LET definitions == IF rootJson.t = "array" THEN JUndefined
                            ELSE ObjGet(rootJson, S_definitions)
         IN  IF ~TypeofObject(definitions) THEN DefinitionRefsResult(TRUE, {}, "")
             ELSE IF definitions.t = "null" THEN DefinitionRefsResult(FALSE, {}, "TypeError")
             ELSE DefinitionRefsResult(
                      TRUE,
                      {<<name, PushDefinition(RefRoot(rootAddress), name)>> :
                          name \in ObjectKeys(definitions)},
                      "")

\* values of the definitions entry the harness tries
DefsDefinitions ==
    {JNull, JBool(TRUE), JNum(3), JStr(S_a), JArr(<< >>), JArr(<<JStr(S_a), JStr(S_b)>>),
     JObj(<< >>), JObj(<<KV(S_a, Schema_TypeName(S_string))>>),
     JObj(<<KV(S_a, Schema_TypeName(S_string)), KV(S_b, JBool(TRUE))>>),
     JObj(<<KV(S_0, JNull), KV(S_definitions, JObj(<< >>))>>)}

\* documents the harness tries
DefsDocuments ==
    {JUndefined, JNull, JBool(FALSE), JNum(3), JStr(S_definitions), JArr(<< >>), JObj(<< >>),
     Schema_TypeName(S_object)}
    \cup {JObj(<<KV(S_definitions, d)>>) : d \in DefsDefinitions}
    \cup {JObj(<<KV(S_type, JStr(S_object)), KV(S_definitions, d)>>) : d \in DefsDefinitions}
    \cup {JArr(<<d>>) : d \in DefsDefinitions}

DefsInit ==
    /\ \E rootJson \in DefsDocuments, rootAddress \in Addresses :
          dr = [NoDefinitionRefs EXCEPT !.rootJson = rootJson, !.rootAddress = rootAddress]
    /\ documents = << >>
    /\ EngineIdle /\ RefIdle /\ LookupIdle /\ MemoIdle /\ StoreIdle

DoDefinitionRefs ==
    /\ ~dr.done
    /\ dr' = [dr EXCEPT !.done = TRUE,
                        !.result = DefinitionRefsInSchema(dr.rootJson, dr.rootAddress)]
    /\ UNCHANGED <<engineVars, refVars, lookupVars, memoVars, storeVars>>

DefsNext == DoDefinitionRefs

DefsSpec == DefsInit /\ [][DefsNext]_vars

\* C19: definitionRefsInSchema returns, for a document that is a keyed
\* mapping whose definitions entry is a keyed mapping, exactly one entry
\* name -> [Root, Definition(name)] per key of definitions, and for every
\* other document it returns the empty mapping and does not fail.
C19_DefinitionRefs ==
    dr.done =>
        /\ dr.result.ok
        /\ IF dr.rootJson.t = "object" /\ ObjGet(dr.rootJson, S_definitions).t = "object"
           THEN dr.result.map =
                    {<<ObjGet(dr.rootJson, S_definitions).kv[i][1],
                       MkRef(dr.rootAddress,
                             <<RootElement,
                               DefinitionElement(ObjGet(dr.rootJson, S_definitions).kv[i][1])>>)>> :
                        i \in 1..Len(ObjGet(dr.rootJson, S_definitions).kv)}
           ELSE dr.result.map = {}

(***************************************************************************)
(* JSONSchemaStore: get calls on one store, with fetch as the environment. *)
(***************************************************************************)
\* number of get calls followed
MaxGets == 3

\* what an overriding fetch may return: undefined or a schema (an object or
\* a boolean)
FetchResults == {JUndefined, JBool(FALSE), JObj(<< >>)}

\* faulty variant: the cached schema is never found
SchemasGet_Miss(map, address) == JUndefined

\* this._schemas.get(address)
SchemasGet(map, address) == IF address \in DOMAIN map THEN map[address] ELSE JUndefined

\* add(address, schema): the assertion, then the new map
JSONSchemaStore_add(map, address, schema) ==
    IF address \in DOMAIN map
    THEN [ok |-> FALSE, schemas |-> map, err |-> "Cannot set a schema for an address twice"]
    ELSE [ok |-> TRUE, schemas |-> map @@ (address :> schema), err |-> ""]

\* get(address), with fetched the value fetch(address) returns if it is
\* called.  The outcome records whether fetch was called.
JSONSchemaStore_get(map, address, fetched) ==
    LET cached == SchemasGet(map, address)
        added == JSONSchemaStore_add(map, address, fetched)
    IN  IF cached.t # "undefined"
        THEN [ok |-> TRUE, schema |-> cached, schemas |-> map, fetch |-> FALSE, err |-> ""]
        ELSE IF fetched.t = "undefined"
        THEN [ok |-> FALSE, schema |-> JUndefined, schemas |-> map, fetch |-> TRUE,
              err |-> "Schema not available"]
        ELSE IF ~added.ok
        THEN [ok |-> FALSE, schema |-> JUndefined, schemas |-> added.schemas, fetch |-> TRUE,
              err |-> added.err]
        ELSE [ok |-> TRUE, schema |-> fetched, schemas |-> added.schemas, fetch |-> TRUE,
              err |-> ""]

StoreInit ==
    /\ schemas = << >>
    /\ getLog = << >>
    /\ documents = << >>
    /\ EngineIdle /\ RefIdle /\ LookupIdle /\ MemoIdle /\ DefsIdle

\* a caller gets an address; a failed get throws and the store lives on
DoGet ==
    /\ Len(getLog) < MaxGets
    /\ \E address \in Addresses, fetched \in FetchResults :
          LET res == JSONSchemaStore_get(schemas, address, fetched)
          IN  /\ schemas' = res.schemas
              /\ getLog' = Append(getLog,
                                  [address |-> address, before |-> schemas, after |-> res.schemas,
                                   fetch |-> res.fetch,
                                   fetched |-> IF res.fetch THEN fetched ELSE JUndefined,
                                   ok |-> res.ok, schema |-> res.schema, err |-> res.err])
    /\ UNCHANGED <<engineVars, refVars, lookupVars, memoVars, defsVars>>

StoreNext == DoGet

StoreSpec == StoreInit /\ [][StoreNext]_vars

\* the get calls before the i-th in which fetch returned a schema for the
\* address of the i-th
FetchedBefore(i) ==
    {j \in 1..(i - 1) :
        /\ getLog[j].address = getLog[i].address
        /\ getLog[j].fetch /\ getLog[j].fetched.t # "undefined"}

\* C20: over every sequence of get calls, fetch returns a schema at most
\* once per address; every get after that returns this schema, calls no
\* fetch and leaves the store as it is; a get whose fetch returns undefined
\* fails and leaves the store as it is; and the assertion of add never
\* fails.
C20_FetchOnce ==
    \A i \in 1..Len(getLog) :
        LET e == getLog[i]
        IN  /\ Cardinality(FetchedBefore(i)) <= 1
            /\ \A j \in FetchedBefore(i) :
                  /\ ~e.fetch /\ e.ok
                  /\ e.schema = getLog[j].fetched
                  /\ e.after = e.before
            /\ (e.fetch /\ e.fetched.t = "undefined") => ~e.ok /\ e.after = e.before
            /\ e.err # "Cannot set a schema for an address twice"

\* C20 witness: a get failed on a fetch of undefined, the next get of the
\* address fetched a schema, and the third returned it without a fetch
C20_Witness ==
    /\ Len(getLog) = 3
    /\ getLog[1].address = getLog[2].address /\ getLog[2].address = getLog[3].address
    /\ getLog[1].fetch /\ ~getLog[1].ok /\ getLog[1].after = << >>
    /\ getLog[2].fetch /\ getLog[2].ok /\ getLog[2].fetched = JBool(FALSE)
    /\ ~getLog[3].fetch /\ getLog[3].ok /\ getLog[3].schema = JBool(FALSE)

\* documents with a boolean literal in the place of a sub-schema: a property
\* schema, an items schema, an allOf branch, the document itself
BooleanSubSchemaDocuments ==
    {Doc_BooleanProperty, Doc_BooleanItems, Doc_BooleanCase, JBool(TRUE)}

\* C21: a run over a document in which a property schema, an items schema,
\* a combinator branch or the document root is a boolean literal does not
\* fail.
C21_BooleanSubSchemaAccepted ==
    Deref(Root) \in BooleanSubSchemaDocuments => status # "failed"

\* the top-level references the run was started with
References == Cases[run].refs

\* topLevelRef.lookupRef(root, root, Ref.root(rootAddress)) for the i-th entry
Resolved(i) == LookupRef(References[i][2], Root, Root, RefRoot(RootAddress))

\* C22: when the run is complete, the builder holds exactly one top-level
\* registration per entry of the reference mapping, in the order of the
\* entries and under the entry's name, and its handle is the one the memo
\* table holds for the entry's resolved path; entries that resolve to the
\* same path are registered with the same handle.
C22_TopLevelsRegistered ==
    status = "done" =>
        /\ Len(topLevels) = Len(References)
        /\ \A i \in 1..Len(References) :
              /\ topLevels[i][1] = References[i][1]
              /\ Resolved(i).ok
              /\ RefImmutable(Resolved(i).ref) \in DOMAIN typeForPath
              /\ typeForPath[RefImmutable(Resolved(i).ref)] = topLevels[i][2]
        /\ \A i, j \in 1..Len(References) :
              Resolved(i).ref.path = Resolved(j).ref.path => topLevels[i][2] = topLevels[j][2]

\* C22 witness: a complete run with three entries, two of which carry
\* different addresses and resolve to the same path and handle, the third
\* to another
C22_Witness ==
    /\ status = "done" /\ Len(topLevels) = 3
    /\ References[1][2].address # References[2][2].address
    /\ Resolved(1).ref.path = Resolved(2).ref.path
    /\ topLevels[1][1] # topLevels[2][1] /\ topLevels[1][2] = topLevels[2][2]
    /\ topLevels[3][2] # topLevels[1][2]

ResolvableKinds == {"Root", "Definition", "KeyOrIndex"}

OnlyResolvable(path) == \A i \in 1..Len(path) : path[i].kind \in ResolvableKinds

\* C23: in a run whose top-level references hold only Root, Definition and
\* KeyOrIndex elements, every reference about to be resolved holds only such
\* elements, whatever the path of the fragment that carries it, and the run
\* never fails with one of the two "Cannot look up path that indexes"
\* messages.
C23_NoTypeOrObjectResolved ==
    (run # 0 /\ \A i \in 1..Len(References) : OnlyResolvable(References[i][2].path)) =>
        /\ failure.msg \notin {"Cannot look up path that indexes type",
                               "Cannot look up path that indexes object"}
        /\ \A n \in DOMAIN stack :
              LET f == stack[n]
                  value == Deref(PtrGet(f.schema, S_ref))
              IN  (f.fn = "convertToType" /\ f.pc = "start" /\ value.t = "string") =>
                      OnlyResolvable(RefParseString(f.path.address, value.s).path)

\* C23 witness: a $ref carried by a fragment whose path holds a Type element
\* has been resolved and its target converted
C23_Witness ==
    /\ \A i \in 1..Len(References) : OnlyResolvable(References[i][2].path)
    /\ stack # << >> /\ Top.fn = "convertToType" /\ Top.pc = "refReturn" /\ ret.defined
    /\ \E i \in 1..Len(Top.path.path) : Top.path.path[i].kind = "Type"

IsBound(path) == RefImmutable(path) \in DOMAIN typeForPath

\* C24: the assertion of setTypeForPath never fails.  A path is unbound when
\* the intersection or the union of an object is about to be bound to it,
\* and when toType binds the result of convertToType to a path that is bound
\* already, the result is the handle stored for it.
C24_SetPathNeverFails ==
    /\ failure.msg # "Trying to set path again to different type"
    /\ (status = "running" /\ stack # << >>) =>
          /\ (Top.fn = "toType" /\ Top.pc = "bind" /\ ret.defined /\ IsBound(Top.path)) =>
                typeForPath[RefImmutable(Top.path)] = ret.h
          /\ (Top.fn = "convertToType" /\ Top.pc = "start") => ~IsBound(Top.path)
          /\ (Top.fn = "fromTypeName" /\ Top.pc = "start" /\ Top.typeName = S_object) =>
                ~IsBound(Top.path)

\* C24 witness: toType is about to bind the result of a $ref fragment whose
\* path was bound, to the same handle, while its target was converted
C24_Witness ==
    /\ status = "running" /\ stack # << >>
    /\ Top.fn = "toType" /\ Top.pc = "bind" /\ ret.defined
    /\ HasRef(Top.schema)
    /\ IsBound(Top.path) /\ typeForPath[RefImmutable(Top.path)] = ret.h

\* C25: every Ref a run converts under, and so every Ref it binds in the
\* memo table, carries the rootAddress the run was started with, whatever
\* the addresses of the top-level references; so does every Ref parsed from
\* a $ref.
C25_BoundRefsCarryRootAddress ==
    /\ \A n \in DOMAIN stack :
          /\ stack[n].path.address = RootAddress
          /\ (stack[n].fn = "convertToType" /\ stack[n].pc = "refReturn" /\ n < Len(stack)) =>
                stack[n + 1].path.address = RootAddress
    /\ (ret.defined /\ run # 0) => ret.path.address = RootAddress

\* C25 witness: the entry being converted carries another address, and
\* toType is about to bind its result under the root address
C25_Witness ==
    /\ status = "running" /\ stack # << >> /\ pending # << >>
    /\ pending[1][2].address = OtherAddress
    /\ Len(stack) = 1 /\ Top.fn = "toType" /\ Top.pc = "bind" /\ ret.defined
    /\ Top.path.address = RootAddress
    /\ Top.path.path = pending[1][2].path

=============================================================================
